---- MODULE Spec2Model ----
(***************************************************************************)
(* Product analytics of kampagnen-pulse: the column resolver, the base     *)
(* product extractors, the aggregator parseProductData with its stock      *)
(* classifier, recommendation rules and ROAS alerts, and the hook          *)
(* useProductData with its localStorage cache and its fetch orchestration, *)
(* and the localStorage cache of the campaign hook useGoogleSheetsData.    *)
(*                                                                         *)
(* A JavaScript string is a sequence of one-character strings; the tokens  *)
(* "ae", "oe", "ue", "ss" stand for the single characters a-umlaut,        *)
(* o-umlaut, u-umlaut and sharp s (and "AE", "OE", "UE" for the capitals). *)
(* A JavaScript number is an integer (amounts in whole units); the         *)
(* threshold comparisons against means are done exactly, by cross          *)
(* multiplication.  An optional value is <<>> (null) or <<x>>.             *)
(***************************************************************************)
EXTENDS Integers, Sequences, FiniteSets, Bags, TLC

VARIABLES
    sIn, sOut,                          \* extractor run: input string, results
    pRows, pRange, pNow, pOut,          \* parser run: rows, date range, clock, result
    aProducts, aOut,                    \* analytics run: product list, results
    rawData, loading, error, dateRange, data,   \* useProductData: hook state
    cache, now, fetches, mounted, last, \* localStorage entry, clock, calls in flight, last step
    lsHook, lsData, lsEntry, lsNow, lsOut   \* cache run: hook, parse result, localStorage entry, clock, results

strVars   == <<sIn, sOut>>
parseVars == <<pRows, pRange, pNow, pOut>>
anaVars   == <<aProducts, aOut>>
hookVars  == <<rawData, loading, error, dateRange, data, cache, now, fetches, mounted, last>>
storeVars == <<lsHook, lsData, lsEntry, lsNow, lsOut>>
vars      == <<strVars, parseVars, anaVars, hookVars, storeVars>>

None == <<>>
Some(x) == <<x>>

\* ------------------------------------------------------------ strings

Range(f) == {f[i] : i \in DOMAIN f}

\* Array.prototype.map, and the mapping of the characters of a string; the
\* concatenation makes the result an enumerated sequence
Map(seq, F(_)) == [i \in 1..Len(seq) |-> F(seq[i])] \o <<>>

UpperChars == <<"A", "B", "C", "D", "E", "F", "G", "H", "I", "J", "K", "L", "M", "N", "O", "P", "Q", "R", "S", "T", "U", "V", "W", "X", "Y", "Z", "AE", "OE", "UE">>
LowerChars == <<"a", "b", "c", "d", "e", "f", "g", "h", "i", "j", "k", "l", "m", "n", "o", "p", "q", "r", "s", "t", "u", "v", "w", "x", "y", "z", "ae", "oe", "ue">>
DigitChars == <<"0", "1", "2", "3", "4", "5", "6", "7", "8", "9">>

\* the lower-case letter of each capital
LowerOf == [c \in Range(UpperChars) |->
               LowerChars[CHOOSE i \in DOMAIN UpperChars : UpperChars[i] = c]]

LowerChar(c) == IF c \in DOMAIN LowerOf THEN LowerOf[c] ELSE c

toLowerCase(s) == Map(s, LowerChar)

IsSpace(c) == c = " "

RECURSIVE TrimStart(_)
TrimStart(s) == IF s # <<>> /\ IsSpace(Head(s)) THEN TrimStart(Tail(s)) ELSE s

RECURSIVE TrimEnd(_)
TrimEnd(s) ==
    IF s # <<>> /\ IsSpace(s[Len(s)]) THEN TrimEnd(SubSeq(s, 1, Len(s) - 1)) ELSE s

trim(s) == TrimEnd(TrimStart(s))

\* the index of the last occurrence: String.prototype.lastIndexOf
lastIndexOf(s, c) ==
    IF \E i \in 1..Len(s) : s[i] = c
    THEN (CHOOSE i \in 1..Len(s) : s[i] = c /\ \A j \in (i + 1)..Len(s) : s[j] # c) - 1
    ELSE -1

\* String.prototype.indexOf for a single character: 0-based, -1 when absent.
indexOf(s, c) ==
    IF \E i \in 1..Len(s) : s[i] = c
    THEN (CHOOSE i \in 1..Len(s) : s[i] = c /\ \A j \in 1..(i - 1) : s[j] # c) - 1
    ELSE -1

\* String.prototype.substring(from, to): 0-based, to exclusive.
substring(s, from, to) == SubSeq(s, from + 1, to)

\* String.prototype.includes: p occurs in s at some offset
includes(s, p) == \E i \in 0..(Len(s) - Len(p)) : \A j \in 1..Len(p) : s[i + j] = p[j]

Min(a, b) == IF a < b THEN a ELSE b

\* ------------------------------------------------------------ values

\* A cell value: undefined, a number n/d (d = 1 for every integer) or a string.
Undefined == [t |-> "undef", n |-> 0, d |-> 1, s |-> <<>>]
Num(n)    == [t |-> "num", n |-> n, d |-> 1, s |-> <<>>]
Frac(n, d) == [t |-> "num", n |-> n, d |-> d, s |-> <<>>]
Str(s)    == [t |-> "str", n |-> 0, d |-> 1, s |-> s]

Truthy(v) ==
    CASE v.t = "undef" -> FALSE
      [] v.t = "num"   -> v.n # 0
      [] v.t = "str"   -> v.s # <<>>

\* a || b
Or(a, b) == IF Truthy(a) THEN a ELSE b

\* a ?? b
Nullish(a, b) == IF a.t = "undef" THEN b ELSE a

RECURSIVE NatToStr(_)
NatToStr(n) ==
    IF n < 10 THEN <<DigitChars[n + 1]>>
    ELSE Append(NatToStr(n \div 10), DigitChars[(n % 10) + 1])

\* String(v), for the integers and strings of the modelled inputs.
String(v) ==
    CASE v.t = "str" -> v.s
      [] v.t = "num" /\ v.d = 1 /\ v.n >= 0 -> NatToStr(v.n)
      [] v.t = "num" /\ v.d = 1 /\ v.n < 0  -> <<"-">> \o NatToStr(-v.n)
      [] v.t = "undef" -> <<"u", "n", "d", "e", "f", "i", "n", "e", "d">>

IsDigit(c) == \E i \in DOMAIN DigitChars : DigitChars[i] = c

DigitValue(c) == (CHOOSE i \in DOMAIN DigitChars : DigitChars[i] = c) - 1

RECURSIVE StrToNat(_)
StrToNat(s) ==
    IF s = <<>> THEN 0
    ELSE 10 * StrToNat(SubSeq(s, 1, Len(s) - 1)) + DigitValue(s[Len(s)])

\* Number(v), for the values that convert to an integer: an integer, a blank
\* string (0) and a string of digits.  The inputs of the model hold nothing
\* that converts to NaN.
Number(v) ==
    CASE v.t = "num" /\ v.d = 1 -> v.n
      [] v.t = "str" /\ trim(v.s) = <<>> -> 0
      [] v.t = "str" /\ trim(v.s) # <<>> /\ \A i \in DOMAIN trim(v.s) : IsDigit(trim(v.s)[i])
            -> StrToNat(trim(v.s))

\* ------------------------------------------------------------ rows

\* A raw row: its entries <<[k |-> key, v |-> value], ...>> in key iteration order.
HasKey(row, key) == \E i \in DOMAIN row : row[i].k = key

\* row[key]
Get(row, key) ==
    IF HasKey(row, key) THEN row[CHOOSE i \in DOMAIN row : row[i].k = key].v
    ELSE Undefined

\* The characters the replace() of normalizeKey keeps: [a-z0-9 a-umlaut o-umlaut u-umlaut sharp-s _]
KeyChars == Range(LowerChars) \cup Range(DigitChars) \cup {"ss", "_"}

normalizeKey(key) == SelectSeq(trim(toLowerCase(key)), LAMBDA c : c \in KeyChars)

RECURSIVE MatchesAny(_, _, _)
MatchesAny(normalized, patterns, j) ==
    /\ j <= Len(patterns)
    /\ \/ includes(normalized, patterns[j])
       \/ MatchesAny(normalized, patterns, j + 1)

RECURSIVE findColumnFrom(_, _, _)
findColumnFrom(row, patterns, i) ==
    IF i > Len(row) THEN Undefined
    ELSE IF MatchesAny(normalizeKey(row[i].k), patterns, 1) THEN row[i].v
    ELSE findColumnFrom(row, patterns, i + 1)

\* findColumn with the loops exchanged: the patterns in priority order, each
\* against every key
findColumnPatternMajor(row, patterns) ==
    LET hits == {h \in (DOMAIN patterns) \X (DOMAIN row) :
                    includes(normalizeKey(row[h[2]].k), patterns[h[1]])}
    IN  IF hits = {} THEN Undefined
        ELSE LET best == CHOOSE h \in hits : \A g \in hits :
                            h[1] < g[1] \/ (h[1] = g[1] /\ h[2] <= g[2])
             IN  row[best[2]].v

findColumn(row, patterns) == findColumnFrom(row, patterns, 1)

\* getStockStatus with the warning band starting at 0
getStockStatusFromZero(available) ==
    IF available > 10 THEN "healthy"
    ELSE IF available >= 0 THEN "warning"
    ELSE "critical"

getStockStatus(available) ==
    IF available > 10 THEN "healthy"
    ELSE IF available >= 1 THEN "warning"
    ELSE "critical"

\* extractArtikelBasis cutting at a dash at any index, the first included
extractArtikelBasisAnyDash(artikelnummer) ==
    IF artikelnummer = <<>> THEN <<>>
    ELSE LET dashIndex == indexOf(artikelnummer, "-")
         IN  IF dashIndex >= 0 THEN trim(substring(artikelnummer, 0, dashIndex))
             ELSE trim(artikelnummer)

extractArtikelBasis(artikelnummer) ==
    IF artikelnummer = <<>> THEN <<>>
    ELSE LET dashIndex == indexOf(artikelnummer, "-")
         IN  IF dashIndex > 0 THEN trim(substring(artikelnummer, 0, dashIndex))
             ELSE trim(artikelnummer)

\* extractProduktBasis that knows the dash alone as a separator
extractProduktBasisDashOnly(name) ==
    IF name = <<>> THEN <<>>
    ELSE LET dashIndex == indexOf(name, "-")
         IN  IF dashIndex > 0 THEN trim(substring(name, 0, dashIndex))
             ELSE trim(name)

extractProduktBasis(name) ==
    IF name = <<>> THEN <<>>
    ELSE LET dashIndex == indexOf(name, "-")
             pipeIndex == indexOf(name, "|")
             baseName ==
                 IF dashIndex > 0 /\ pipeIndex > 0
                 THEN substring(name, 0, Min(dashIndex, pipeIndex))
                 ELSE IF dashIndex > 0 THEN substring(name, 0, dashIndex)
                 ELSE IF pipeIndex > 0 THEN substring(name, 0, pipeIndex)
                 ELSE name
         IN  trim(baseName)

\* ------------------------------------------------------------ rationals

\* sum / count || 0 as the exact fraction n/d, d > 0 (NaN for an empty list is replaced by 0)
Mean(sum, count) == IF count = 0 THEN [n |-> 0, d |-> 1] ELSE [n |-> sum, d |-> count]

\* x >= avg * (num / den)
GeTimes(x, avg, num, den) == x * avg.d * den >= avg.n * num

\* x > avg * (num / den) and x < avg * (num / den), den > 0
GtTimes(x, avg, num, den) == x * avg.d * den > avg.n * num
LtTimes(x, avg, num, den) == x * avg.d * den < avg.n * num

RECURSIVE Sum(_)
Sum(numbers) == IF numbers = <<>> THEN 0 ELSE Head(numbers) + Sum(Tail(numbers))

\* seq.reduce((sum, p) => sum + F(p), 0)
SumBy(seq, F(_)) == Sum(Map(seq, F))

\* Array.prototype.sort (stable) on entries [key, x], ascending by key: an entry
\* goes before the first sorted entry it compares less than.
RECURSIVE InsertSorted(_, _)
InsertSorted(sorted, e) ==
    IF sorted = <<>> THEN <<e>>
    ELSE IF e.key < Head(sorted).key THEN <<e>> \o sorted
    ELSE <<Head(sorted)>> \o InsertSorted(Tail(sorted), e)

RECURSIVE SortKeyed(_)
SortKeyed(keyed) ==
    IF keyed = <<>> THEN <<>>
    ELSE InsertSorted(SortKeyed(SubSeq(keyed, 1, Len(keyed) - 1)), keyed[Len(keyed)])

\* seq.sort((a, b) => Key(a) - Key(b))
SortAscBy(seq, Key(_)) ==
    LET sorted == SortKeyed(Map(seq, LAMBDA p : [key |-> Key(p), x |-> p]))
    IN  Map(sorted, LAMBDA e : e.x)

\* seq.sort((a, b) => Key(b) - Key(a))
SortDescBy(seq, Key(_)) == SortAscBy(seq, LAMBDA p : -Key(p))

\* a slice that does not cut
TakeAll(seq, k) == seq

\* Array.prototype.slice(0, k)
Take(seq, k) == SubSeq(seq, 1, Min(k, Len(seq)))

\* ------------------------------------------------------------ recommendations

Recommendation(product, type, priority, suggestion) ==
    [artikelBasis |-> product.artikelBasis, produktBasis |-> product.produktBasis,
     type |-> type, priority |-> priority, suggestion |-> suggestion]

\* the opportunities with an ads_invest rule that does not ask for a healthy stock
OpportunitiesOfAnyStock(product, avgRevenue, avgUnits) ==
    (IF GtTimes(product.revenue, avgRevenue, 3, 2)
     THEN <<Recommendation(product, "ads_invest", "high", "Mehr in Google Ads investieren")>>
     ELSE <<>>)
    \o
    (IF LtTimes(product.revenue, avgRevenue, 3, 10) /\ product.available > 10
     THEN <<Recommendation(product, "opportunity", "medium", "SEO-Optimierung & Preisanpassung")>>
     ELSE <<>>)
    \o
    (IF LtTimes(product.unitsSold, avgUnits, 2, 10) /\ product.available > 5
     THEN <<Recommendation(product, "optimize", "low", "Bundle oder Cross-Sell Moeglichkeit")>>
     ELSE <<>>)

\* the entries one iteration of the loop pushes to the opportunities list
OpportunitiesOf(product, avgRevenue, avgUnits) ==
    (IF GtTimes(product.revenue, avgRevenue, 3, 2) /\ product.stockStatus = "healthy"
     THEN <<Recommendation(product, "ads_invest", "high", "Mehr in Google Ads investieren")>>
     ELSE <<>>)
    \o
    (IF LtTimes(product.revenue, avgRevenue, 3, 10) /\ product.available > 10
     THEN <<Recommendation(product, "opportunity", "medium", "SEO-Optimierung & Preisanpassung")>>
     ELSE <<>>)
    \o
    (IF LtTimes(product.unitsSold, avgUnits, 2, 10) /\ product.available > 5
     THEN <<Recommendation(product, "optimize", "low", "Bundle oder Cross-Sell Moeglichkeit")>>
     ELSE <<>>)

\* the entries one iteration of the loop pushes to the waste list
WasteOf(product, avgRevenue, avgUnits) ==
    (IF product.stockStatus = "critical" /\ GtTimes(product.unitsSold, avgUnits, 1, 1)
     THEN <<Recommendation(product, "waste", "high", "Dringend Nachbestellen!")>>
     ELSE <<>>)
    \o
    (IF LtTimes(product.revenue, avgRevenue, 1, 10) /\ LtTimes(product.unitsSold, avgUnits, 1, 10)
     THEN <<Recommendation(product, "ads_reduce", "medium", "Ads-Budget reduzieren")>>
     ELSE <<>>)

RECURSIVE SEOLoop(_, _, _, _)
SEOLoop(rest, avgRevenue, avgUnits, acc) ==
    IF rest = <<>> THEN acc
    ELSE SEOLoop(Tail(rest), avgRevenue, avgUnits,
                 [opportunities |-> acc.opportunities \o OpportunitiesOf(Head(rest), avgRevenue, avgUnits),
                  waste |-> acc.waste \o WasteOf(Head(rest), avgRevenue, avgUnits)])

generateSEORecommendations(products) ==
    LET avgRevenue == Mean(SumBy(products, LAMBDA p : p.revenue), Len(products))
        avgUnits   == Mean(SumBy(products, LAMBDA p : p.unitsSold), Len(products))
    IN  SEOLoop(products, avgRevenue, avgUnits, [opportunities |-> <<>>, waste |-> <<>>])

\* ------------------------------------------------------------ ROAS

\* an ad spend of 30 % of the revenue
EstimatedAdSpendThirtyPercent(totalRevenue) == [n |-> totalRevenue * 30, d |-> 100]

\* an ad spend of 20 % of the revenue
EstimatedAdSpendTwentyPercent(totalRevenue) == [n |-> totalRevenue * 20, d |-> 100]

\* totalRevenue * 0.15
EstimatedAdSpend(totalRevenue) == [n |-> totalRevenue * 15, d |-> 100]

\* an alert for each product of critical stock
CriticalAlertPerProduct(products) ==
    Map(SelectSeq(products, LAMBDA p : p.stockStatus = "critical"), LAMBDA p : "critical")

\* if (criticalCount > 0) alerts.push({type: 'critical', ...})
CriticalAlert(products) ==
    LET criticalCount == Len(SelectSeq(products, LAMBDA p : p.stockStatus = "critical"))
    IN  IF criticalCount > 0 THEN <<"critical">> ELSE <<>>

\* The ROAS summary without its texts: totals, the three product segments and
\* the types of the alerts in the order they are pushed.
generateROASData(products) ==
    LET totalRevenue == SumBy(products, LAMBDA p : p.revenue)
        estimatedAdSpend == EstimatedAdSpend(totalRevenue)
        overallROAS == IF estimatedAdSpend.n > 0
                       THEN [n |-> totalRevenue * estimatedAdSpend.d, d |-> estimatedAdSpend.n]
                       ELSE [n |-> 0, d |-> 1]
        avgRevenue == Mean(totalRevenue, Len(products))
        avgUnits   == Mean(SumBy(products, LAMBDA p : p.unitsSold), Len(products))
        profitableProducts ==
            Take(SortDescBy(SelectSeq(products, LAMBDA p : GtTimes(p.revenue, avgRevenue, 1, 1)),
                            LAMBDA p : p.revenue), 10)
        unprofitableProducts ==
            Take(SortAscBy(SelectSeq(products, LAMBDA p : LtTimes(p.revenue, avgRevenue, 3, 10)
                                                           /\ p.revenue > 0),
                           LAMBDA p : p.revenue), 10)
        topROASProducts ==
            Take(SortDescBy(SelectSeq(products, LAMBDA p : GtTimes(p.revenue, avgRevenue, 1, 1)
                                                            /\ p.stockStatus # "critical"),
                            LAMBDA p : p.revenue), 5)
        roasAlert == IF overallROAS.n < 3 * overallROAS.d THEN <<"warning">>
                     ELSE IF overallROAS.n >= 4 * overallROAS.d THEN <<"info">>
                     ELSE <<>>
        criticalAlert == CriticalAlert(products)
        \* unprofitableProducts.length > products.length * 0.3
        performanceAlert == IF Len(unprofitableProducts) * 10 > Len(products) * 3
                            THEN <<"warning">> ELSE <<>>
    IN  [totalAdSpend |-> estimatedAdSpend,
         totalRevenue |-> totalRevenue,
         overallROAS |-> overallROAS,
         profitableProducts |-> profitableProducts,
         unprofitableProducts |-> unprofitableProducts,
         topROASProducts |-> topROASProducts,
         alerts |-> roasAlert \o criticalAlert \o performanceAlert]

\* ------------------------------------------------------------ date filter

\* parseISO on the date strings of the modelled rows, in ms since local
\* 2024-01-01T00:00; any other string is an Invalid Date (None).
IsoDates == <<[s |-> <<"2", "0", "2", "4", "-", "0", "1", "-", "0", "1">>, t |-> 0],
              [s |-> <<"2", "0", "2", "4", "-", "0", "1", "-", "0", "2">>, t |-> 86400000],
              [s |-> <<"2", "0", "2", "4", "-", "0", "1", "-", "0", "3">>, t |-> 172800000]>>

parseISO(s) ==
    IF \E i \in DOMAIN IsoDates : IsoDates[i].s = s
    THEN Some(IsoDates[CHOOSE i \in DOMAIN IsoDates : IsoDates[i].s = s].t)
    ELSE None

\* date-fns isWithinInterval: [throws |-> an invalid interval, within |-> the answer];
\* an Invalid Date compares false with both bounds.
isWithinInterval(date, start, end) ==
    [throws |-> ~(start <= end),
     within |-> date # None /\ date[1] >= start /\ date[1] <= end]

\* A date range is None or [from |-> optional time, to |-> optional time].
HasFrom(range) == range # None /\ range[1].from # None

\* the callback of rows.filter(...): rows the date filter keeps
KeepsRow(row, range, clock) ==
    LET dateStr == String(Or(Or(Or(Get(row, <<"A", "u", "f", "t", "r", "a", "g", "s", "d", "a", "t", "u", "m">>), Get(row, <<"D", "a", "t", "e">>)),
                                Get(row, <<"D", "a", "t", "u", "m">>)), Str(<<>>)))
        from == range[1].from[1]
        to   == IF range[1].to # None THEN range[1].to[1] ELSE clock
        res  == isWithinInterval(parseISO(dateStr), from, to)
    IN  IF dateStr = <<>> THEN TRUE
        ELSE IF res.throws THEN TRUE
        ELSE res.within

DateFilter(rows, range, clock) ==
    IF HasFrom(range) THEN SelectSeq(rows, LAMBDA row : KeepsRow(row, range, clock))
    ELSE rows

\* ------------------------------------------------------------ parseProductData

PatSku       == <<<<"a", "r", "t", "i", "k", "e", "l", "n", "u", "m", "m", "e", "r">>, <<"a", "r", "t", "i", "k", "e", "l", "n", "r">>, <<"s", "k", "u">>, <<"a", "r", "t", "n", "u", "m">>>>
PatName      == <<<<"b", "e", "z", "e", "i", "c", "h", "n", "u", "n", "g">>, <<"p", "r", "o", "d", "u", "k", "t", "n", "a", "m", "e">>, <<"a", "r", "t", "i", "k", "e", "l", "n", "a", "m", "e">>, <<"n", "a", "m", "e">>, <<"p", "r", "o", "d", "u", "c", "t">>>>
PatUnits     == <<<<"m", "e", "n", "g", "e">>, <<"s", "o", "l", "d">>, <<"u", "n", "i", "t", "s">>, <<"q", "u", "a", "n", "t", "i", "t", "y">>, <<"v", "e", "r", "k", "a", "u", "f", "t">>, <<"q", "t", "y">>, <<"a", "n", "z", "a", "h", "l">>>>
PatRevenue   == <<<<"t", "o", "t", "a", "l">>, <<"r", "e", "v", "e", "n", "u", "e">>, <<"u", "m", "s", "a", "t", "z">>, <<"s", "a", "l", "e", "s">>, <<"e", "r", "l", "oe", "s">>, <<"e", "u", "r", "o">>, <<"b", "e", "t", "r", "a", "g">>>>
PatStock     == <<<<"a", "u", "f", "l", "a", "g", "e", "r">>, <<"l", "a", "g", "e", "r">>, <<"s", "t", "o", "c", "k">>, <<"b", "e", "s", "t", "a", "n", "d">>, <<"l", "a", "g", "e", "r", "b", "e", "s", "t", "a", "n", "d">>>>
PatOrders    == <<<<"i", "n", "a", "u", "f", "t", "r", "ae", "g", "e", "n">>, <<"i", "n", "a", "u", "f", "t", "r", "a", "g", "e", "n">>, <<"r", "e", "s", "e", "r", "v", "i", "e", "r", "t">>, <<"o", "r", "d", "e", "r", "s">>, <<"a", "u", "f", "t", "r", "ae", "g", "e">>>>
PatAvailable == <<<<"v", "e", "r", "f", "ue", "g", "b", "a", "r">>, <<"v", "e", "r", "f", "u", "g", "b", "a", "r">>, <<"a", "v", "a", "i", "l", "a", "b", "l", "e">>, <<"f", "r", "e", "i">>>>
PatShop      == <<<<"s", "h", "o", "p", "f", "i", "x">>, <<"s", "h", "o", "p">>, <<"c", "h", "a", "n", "n", "e", "l">>, <<"k", "a", "n", "a", "l">>, <<"p", "l", "a", "t", "t", "f", "o", "r", "m">>>>

\* the callback of filteredRows.map(...)
RawProduct(row) ==
    LET artikelBasisDirect ==
            trim(String(Or(Or(Get(row, <<"A", "r", "t", "i", "k", "e", "l", "_", "B", "a", "s", "i", "s">>), Get(row, <<"A", "r", "t", "i", "k", "e", "l", "B", "a", "s", "i", "s">>)), Str(<<>>))))
        produktBasisDirect ==
            trim(String(Or(Or(Get(row, <<"P", "r", "o", "d", "u", "k", "t", "_", "B", "a", "s", "i", "s">>), Get(row, <<"P", "r", "o", "d", "u", "k", "t", "B", "a", "s", "i", "s">>)), Str(<<>>))))
        artikelnummer == trim(String(Or(findColumn(row, PatSku), Str(<<>>))))
        name == trim(String(Nullish(Nullish(Get(row, <<"B", "e", "z", "e", "i", "c", "h", "n", "u", "n", "g">>), findColumn(row, PatName)),
                                    Str(<<>>))))
        artikelBasis == IF artikelBasisDirect # <<>> THEN artikelBasisDirect
                        ELSE extractArtikelBasis(artikelnummer)
        produktBasis == IF produktBasisDirect # <<>> THEN produktBasisDirect
                        ELSE IF extractProduktBasis(name) # <<>> THEN extractProduktBasis(name)
                        ELSE name
        unitsSold   == Number(Or(findColumn(row, PatUnits), Num(0)))
        revenue     == Number(Or(findColumn(row, PatRevenue), Num(0)))
        stockOnHand == Number(Or(findColumn(row, PatStock), Num(0)))
        inOrders    == Number(Or(findColumn(row, PatOrders), Num(0)))
        available   == Number(Or(findColumn(row, PatAvailable), Num(stockOnHand - inOrders)))
        salesChannel == String(Or(findColumn(row, PatShop), Str(<<>>)))
    IN  [artikelBasis |-> artikelBasis, produktBasis |-> produktBasis,
         artikelnummer |-> artikelnummer, name |-> name,
         unitsSold |-> unitsSold, revenue |-> revenue, stockOnHand |-> stockOnHand,
         inOrders |-> inOrders, available |-> available, salesChannel |-> salesChannel]

\* the raw products without the filter on the base id and the base name
RawProductsUnfiltered(filteredRows) == Map(filteredRows, RawProduct)

\* filteredRows.map(...).filter(p => p.artikelBasis !== '' && p.produktBasis !== '')
RawProducts(filteredRows) ==
    SelectSeq(Map(filteredRows, RawProduct),
              LAMBDA p : p.artikelBasis # <<>> /\ p.produktBasis # <<>>)

\* aggregatedMap.set(key, {...}): the entry of a first variation
NewEntry(product) ==
    [artikelBasis |-> product.artikelBasis, produktBasis |-> product.produktBasis,
     unitsSold |-> product.unitsSold, revenue |-> product.revenue,
     stockOnHand |-> product.stockOnHand, inOrders |-> product.inOrders,
     available |-> product.available, salesChannel |-> product.salesChannel,
     variationsCount |-> 1]

\* an update that keeps the first variation alone
KeepFirstVariation(existing, product) == existing

\* an update that takes the further variation away from the sums
SubtractVariation(existing, product) ==
    [existing EXCEPT !.unitsSold = @ - product.unitsSold,
                     !.revenue = @ - product.revenue,
                     !.stockOnHand = @ - product.stockOnHand,
                     !.inOrders = @ - product.inOrders,
                     !.available = @ - product.available,
                     !.variationsCount = @ + 1]

\* an update that also takes the channel label of the further variation
AddVariationWithChannel(existing, product) ==
    [existing EXCEPT !.unitsSold = @ + product.unitsSold,
                     !.revenue = @ + product.revenue,
                     !.stockOnHand = @ + product.stockOnHand,
                     !.inOrders = @ + product.inOrders,
                     !.available = @ + product.available,
                     !.salesChannel = product.salesChannel,
                     !.variationsCount = @ + 1]

\* the update of an existing entry by a further variation
AddVariation(existing, product) ==
    [existing EXCEPT !.unitsSold = @ + product.unitsSold,
                     !.revenue = @ + product.revenue,
                     !.stockOnHand = @ + product.stockOnHand,
                     !.inOrders = @ + product.inOrders,
                     !.available = @ + product.available,
                     !.variationsCount = @ + 1]

\* the loop with keys compared without regard to case
RECURSIVE AggregateIgnoringCase(_, _)
AggregateIgnoringCase(rawProducts, aggregatedMap) ==
    IF rawProducts = <<>> THEN aggregatedMap
    ELSE LET product == Head(rawProducts)
             key == toLowerCase(product.artikelBasis)
         IN  IF \E i \in DOMAIN aggregatedMap : toLowerCase(aggregatedMap[i].artikelBasis) = key
             THEN LET i == CHOOSE j \in DOMAIN aggregatedMap :
                               toLowerCase(aggregatedMap[j].artikelBasis) = key
                  IN  AggregateIgnoringCase(Tail(rawProducts),
                                            [aggregatedMap EXCEPT ![i] = AddVariation(@, product)])
             ELSE AggregateIgnoringCase(Tail(rawProducts),
                                        Append(aggregatedMap, NewEntry(product)))

\* The loop over rawProducts; the Map is the sequence of its entries in insertion order.
RECURSIVE Aggregate(_, _)
Aggregate(rawProducts, aggregatedMap) ==
    IF rawProducts = <<>> THEN aggregatedMap
    ELSE LET product == Head(rawProducts)
             key == product.artikelBasis
         IN  IF \E i \in DOMAIN aggregatedMap : aggregatedMap[i].artikelBasis = key
             THEN LET i == CHOOSE j \in DOMAIN aggregatedMap : aggregatedMap[j].artikelBasis = key
                  IN  Aggregate(Tail(rawProducts),
                                [aggregatedMap EXCEPT ![i] = AddVariation(@, product)])
             ELSE Aggregate(Tail(rawProducts), Append(aggregatedMap, NewEntry(product)))

\* the callback of .map(p => ({...})) building a ProductData
ToProductData(p) ==
    [artikelBasis |-> p.artikelBasis, produktBasis |-> p.produktBasis,
     unitsSold |-> p.unitsSold, revenue |-> p.revenue, stockOnHand |-> p.stockOnHand,
     inOrders |-> p.inOrders, available |-> p.available,
     stockStatus |-> getStockStatus(p.available),
     salesChannel |-> p.salesChannel, variationsCount |-> p.variationsCount,
     avgPrice |-> IF p.unitsSold > 0 THEN [n |-> p.revenue, d |-> p.unitsSold]
                  ELSE [n |-> 0, d |-> 1]]

\* a filter that asks for sales
HasSales(p) == p.revenue > 0 \/ p.unitsSold > 0

\* the predicate of the filter that drops the rows without any activity
HasActivity(p) == p.revenue > 0 \/ p.unitsSold > 0 \/ p.stockOnHand > 0

Products(aggregated) ==
    Map(SelectSeq(aggregated, HasActivity), ToProductData)

\* ------------------------------------------------------------ generateShopAnalytics

\* the callback of rows.filter(...) of generateShopAnalytics
ShopKeepsRow(row, range, clock) ==
    LET dateStr == String(Or(Or(Or(Get(row, <<"A", "u", "f", "t", "r", "a", "g", "s", "d", "a", "t", "u", "m">>), Get(row, <<"D", "a", "t", "e">>)),
                                Get(row, <<"D", "a", "t", "u", "m">>)), Str(<<>>)))
        from == range[1].from[1]
        to   == IF range[1].to # None THEN range[1].to[1] ELSE clock
        res  == isWithinInterval(parseISO(dateStr), from, to)
    IN  IF dateStr = <<>> THEN TRUE
        ELSE IF res.throws THEN TRUE
        ELSE res.within

ShopDateFilter(rows, range, clock) ==
    IF HasFrom(range) THEN SelectSeq(rows, LAMBDA row : ShopKeepsRow(row, range, clock))
    ELSE rows

\* the label an empty or missing channel gets
FallbackShop == <<"e", "B", "a", "y">>

\* what the loop reads from a row: shopName, revenue, units, artikelBasis
ShopRow(row) ==
    LET shopRaw == trim(String(Or(findColumn(row, PatShop), Str(<<>>))))
        artikelBasisDirect ==
            trim(String(Or(Or(Get(row, <<"A", "r", "t", "i", "k", "e", "l", "_", "B", "a", "s", "i", "s">>), Get(row, <<"A", "r", "t", "i", "k", "e", "l", "B", "a", "s", "i", "s">>)), Str(<<>>))))
    IN  [shopName |-> IF shopRaw = <<>> THEN FallbackShop ELSE shopRaw,
         revenue |-> Number(Or(findColumn(row, PatRevenue), Num(0))),
         units |-> Number(Or(findColumn(row, PatUnits), Num(0))),
         artikelBasis |-> IF artikelBasisDirect # <<>> THEN artikelBasisDirect
                          ELSE extractArtikelBasis(String(Or(findColumn(row, PatSku), Str(<<>>))))]

\* shopMap.set(shopName, {revenue: 0, units: 0, products: new Set()})
NewShop(shopName) == [shopName |-> shopName, revenue |-> 0, units |-> 0, products |-> {}]

\* a loop body that counts the first row of a base id in a shop only
AddFirstOfBase(shop, r) ==
    IF r.artikelBasis \in shop.products THEN shop
    ELSE [shop EXCEPT !.revenue = @ + r.revenue, !.units = @ + r.units,
                      !.products = IF r.artikelBasis # <<>> THEN @ \cup {r.artikelBasis} ELSE @]

\* shop.revenue += revenue; shop.units += units; if (artikelBasis) shop.products.add(artikelBasis)
AddToShop(shop, r) ==
    [shop EXCEPT !.revenue = @ + r.revenue, !.units = @ + r.units,
                 !.products = IF r.artikelBasis # <<>> THEN @ \cup {r.artikelBasis} ELSE @]

\* one pass of the loop body for the row read as r
AfterShopRow(shopMap, r) ==
    IF \E i \in DOMAIN shopMap : shopMap[i].shopName = r.shopName
    THEN [i \in DOMAIN shopMap |->
             IF shopMap[i].shopName = r.shopName THEN AddToShop(shopMap[i], r)
             ELSE shopMap[i]] \o <<>>
    ELSE Append(shopMap, AddToShop(NewShop(r.shopName), r))

\* The loop over filteredRows; the Map is the sequence of its entries in
\* insertion order.  (A name bound by \in holds a value that is computed once.)
RECURSIVE ShopLoop(_, _)
ShopLoop(filteredRows, shopMap) ==
    IF filteredRows = <<>> THEN shopMap
    ELSE CHOOSE result \in
             { ShopLoop(Tail(filteredRows), AfterShopRow(shopMap, r)) :
                 r \in {ShopRow(Head(filteredRows))} } : TRUE

\* the callback of .map(([shopName, data]) => ({...}))
ShopEntry(shop, totalRevenue) ==
    LET size == Cardinality(shop.products)
    IN  [shopName |-> shop.shopName,
         totalRevenue |-> shop.revenue,
         totalUnitsSold |-> shop.units,
         productCount |-> size,
         avgRevenue |-> IF size > 0 THEN [n |-> shop.revenue, d |-> size] ELSE [n |-> 0, d |-> 1],
         percentageOfTotal |-> IF totalRevenue > 0 THEN [n |-> shop.revenue * 100, d |-> totalRevenue]
                               ELSE [n |-> 0, d |-> 1]]

\* Array.from(shopMap.entries()).map(...).sort((a, b) => b.totalRevenue - a.totalRevenue)
ShopEntries(shopMap) ==
    CHOOSE analytics \in
        { SortDescBy(Map(shopMap, LAMBDA s : ShopEntry(s, totalRevenue)),
                     LAMBDA e : e.totalRevenue) :
            totalRevenue \in {SumBy(shopMap, LAMBDA s : s.revenue)} } : TRUE

\* generateShopAnalytics(rows, dateRange) run at time clock
generateShopAnalytics(rows, range, clock) ==
    CHOOSE analytics \in
        { ShopEntries(shopMap) :
            shopMap \in { ShopLoop(filteredRows, <<>>) :
                            filteredRows \in {ShopDateFilter(rows, range, clock)} } } : TRUE

\* ------------------------------------------------------------ the result of the parse

defaultData(clock) ==
    [products |-> <<>>,
     metrics |-> [totalProducts |-> 0, totalRevenue |-> 0, totalUnitsSold |-> 0,
                  avgPrice |-> [n |-> 0, d |-> 1],
                  healthyStock |-> 0, warningStock |-> 0, criticalStock |-> 0],
     topProducts |-> <<>>, slowProducts |-> <<>>, criticalAlerts |-> <<>>,
     seoOpportunities |-> <<>>, seoWaste |-> <<>>,
     roasData |-> [totalAdSpend |-> [n |-> 0, d |-> 1], totalRevenue |-> 0,
                   overallROAS |-> [n |-> 0, d |-> 1],
                   profitableProducts |-> <<>>, unprofitableProducts |-> <<>>,
                   topROASProducts |-> <<>>, alerts |-> <<>>],
     shopAnalytics |-> <<>>,
     lastUpdated |-> clock]

CountStatus(products, status) == Len(SelectSeq(products, LAMBDA p : p.stockStatus = status))

\* parseProductData(rows, dateRange) run at time clock (new Date())
parseProductData(rows, range, clock) ==
    IF rows = <<>> THEN defaultData(clock)
    ELSE
    LET filteredRows == DateFilter(rows, range, clock)
        rawProducts == RawProducts(filteredRows)
        products == Products(Aggregate(rawProducts, <<>>))
        totalRevenue == SumBy(products, LAMBDA p : p.revenue)
        totalUnitsSold == SumBy(products, LAMBDA p : p.unitsSold)
        sortedByRevenue == SortDescBy(products, LAMBDA p : p.revenue)
        sortedByUnitsAsc ==
            SortAscBy(SelectSeq(products, LAMBDA p : p.revenue > 0 \/ p.unitsSold > 0),
                      LAMBDA p : p.unitsSold)
        seo == generateSEORecommendations(products)
    IN  [products |-> products,
         metrics |-> [totalProducts |-> Len(products),
                      totalRevenue |-> totalRevenue,
                      totalUnitsSold |-> totalUnitsSold,
                      avgPrice |-> IF totalUnitsSold > 0
                                   THEN [n |-> totalRevenue, d |-> totalUnitsSold]
                                   ELSE [n |-> 0, d |-> 1],
                      healthyStock |-> CountStatus(products, "healthy"),
                      warningStock |-> CountStatus(products, "warning"),
                      criticalStock |-> CountStatus(products, "critical")],
         topProducts |-> Take(sortedByRevenue, 5),
         slowProducts |-> Take(sortedByUnitsAsc, 5),
         criticalAlerts |-> SelectSeq(products, LAMBDA p : p.stockStatus = "critical" /\ p.unitsSold > 0),
         seoOpportunities |-> seo.opportunities,
         seoWaste |-> seo.waste,
         roasData |-> generateROASData(products),
         shopAnalytics |-> generateShopAnalytics(rows, range, clock),
         lastUpdated |-> clock]

\* ------------------------------------------------------------ idle values

IdleStr   == sIn = <<>> /\ sOut = None
IdleParse == pRows = <<>> /\ pRange = None /\ pNow = 0 /\ pOut = None
IdleAna   == aProducts = <<>> /\ aOut = None

\* the record of the last step of the hook when there has been none
NoStep == [kind |-> "none", forced |-> FALSE, requested |-> FALSE, cached |-> None,
           clock |-> 0, primary |-> "none", secondary |-> "none", fallbacks |-> 0,
           rows |-> None, overlapped |-> FALSE, seenNonEmpty |-> FALSE]

IdleHook  == /\ rawData = None /\ loading = TRUE /\ error = None /\ dateRange = None
             /\ data = None /\ cache = None /\ now = 0 /\ fetches = EmptyBag
             /\ mounted = FALSE /\ last = NoStep

IdleStore == /\ lsHook = "none" /\ lsData = None /\ lsEntry = None /\ lsNow = 0
             /\ lsOut = None

\* ------------------------------------------------------------ extractor runs

MaxLen == 4

StrAlphabet == {"A", "b", "-", "|", " "}

\* the SKUs and names of the documented examples
StrCases == {<<"A", "B", "-", "1", "0", "0", "-", "r", "e", "d">>, <<"A", "B">>, <<"-", "A", "B">>, <<"S", "h", "o", "e", " ", "-", " ", "R", "e", "d", " ", "|", " ", "L">>}

\* the input is any string of at most MaxLen characters, or one of the examples
InitStr ==
    /\ \/ \E k \in 0..MaxLen : \E s \in [1..k -> StrAlphabet] : sIn = s
       \/ sIn \in StrCases
    /\ sOut = None /\ IdleParse /\ IdleAna /\ IdleHook /\ IdleStore

RunExtractArtikelBasis ==
    /\ sOut = None
    /\ sOut' = Some([fn |-> "extractArtikelBasis", out |-> extractArtikelBasis(sIn)])
    /\ UNCHANGED <<sIn, parseVars, anaVars, hookVars, storeVars>>

RunExtractProduktBasis ==
    /\ sOut = None
    /\ sOut' = Some([fn |-> "extractProduktBasis", out |-> extractProduktBasis(sIn)])
    /\ UNCHANGED <<sIn, parseVars, anaVars, hookVars, storeVars>>

NextStr == RunExtractArtikelBasis \/ RunExtractProduktBasis

SpecStr == InitStr /\ [][NextStr]_vars

\* ------------------------------------------------------------ parser runs

MaxRows == 3

\* a row of the sheet with its German column labels, in column order
SheetRow(sku, name, menge, total, lager, auftraege, shop, datum) ==
    <<[k |-> <<"A", "r", "t", "i", "k", "e", "l", "n", "u", "m", "m", "e", "r">>, v |-> Str(sku)],
      [k |-> <<"B", "e", "z", "e", "i", "c", "h", "n", "u", "n", "g">>, v |-> Str(name)],
      [k |-> <<"M", "e", "n", "g", "e">>, v |-> Num(menge)],
      [k |-> <<"T", "o", "t", "a", "l">>, v |-> Num(total)],
      [k |-> <<"A", "u", "f", " ", "L", "a", "g", "e", "r">>, v |-> Num(lager)],
      [k |-> <<"I", "n", " ", "A", "u", "f", "t", "r", "ae", "g", "e", "n">>, v |-> Num(auftraege)],
      [k |-> <<"S", "h", "o", "p", "F", "i", "x">>, v |-> Str(shop)],
      [k |-> <<"A", "u", "f", "t", "r", "a", "g", "s", "d", "a", "t", "u", "m">>, v |-> Str(datum)]>>

\* a row that carries the base columns and an available column, and no date
BasisRow(artikelBasis, produktBasis, menge, total, lager, verfuegbar) ==
    <<[k |-> <<"A", "r", "t", "i", "k", "e", "l", "_", "B", "a", "s", "i", "s">>, v |-> Str(artikelBasis)],
      [k |-> <<"P", "r", "o", "d", "u", "k", "t", "_", "B", "a", "s", "i", "s">>, v |-> Str(produktBasis)],
      [k |-> <<"M", "e", "n", "g", "e">>, v |-> Num(menge)],
      [k |-> <<"U", "m", "s", "a", "t", "z">>, v |-> Num(total)],
      [k |-> <<"L", "a", "g", "e", "r", "b", "e", "s", "t", "a", "n", "d">>, v |-> Num(lager)],
      [k |-> <<"V", "e", "r", "f", "ue", "g", "b", "a", "r">>, v |-> Num(verfuegbar)]>>

\* a row with the English labels of the end-to-end scenario
ScenarioRow(sku, name, units, revenue, stock) ==
    <<[k |-> <<"s", "k", "u">>, v |-> Str(sku)],
      [k |-> <<"n", "a", "m", "e">>, v |-> Str(name)],
      [k |-> <<"u", "n", "i", "t", "s">>, v |-> Num(units)],
      [k |-> <<"r", "e", "v", "e", "n", "u", "e">>, v |-> Num(revenue)],
      [k |-> <<"s", "t", "o", "c", "k">>, v |-> Num(stock)]>>

ScenarioRows ==
    <<ScenarioRow(<<"A", "-", "1">>, <<"W", "i", "d", "g", "e", "t", "-", "R", "e", "d">>, 5, 50, 3),
      ScenarioRow(<<"A", "-", "2">>, <<"W", "i", "d", "g", "e", "t", "-", "B", "l", "u", "e">>, 2, 20, 0),
      ScenarioRow(<<"B", "-", "1">>, <<"G", "a", "d", "g", "e", "t">>, 100, 1000, 50)>>

RowPool ==
    { SheetRow(<<"A", "-", "1">>, <<"S", "h", "o", "e", " ", "-", " ", "R", "e", "d", " ", "|", " ", "L">>, 5, 50, 3, 0, <<"e", "B", "a", "y">>, <<"2", "0", "2", "4", "-", "0", "1", "-", "0", "1">>),
      SheetRow(<<"A", "-", "2">>, <<"S", "h", "o", "e", " ", "-", " ", "B", "l", "u", "e">>, 2, 20, 0, 1, <<"A", "m", "a", "z", "o", "n">>, <<"2", "0", "2", "4", "-", "0", "1", "-", "0", "2">>),
      SheetRow(<<"B", "-", "1">>, <<"G", "a", "d", "g", "e", "t">>, 9, 90, 14, 2, <<>>, <<"2", "0", "2", "4", "-", "0", "1", "-", "0", "3">>),
      SheetRow(<<"B", "-", "2">>, <<"G", "a", "d", "g", "e", "t", "|", "X", "L">>, 1, 10, 0, 0, <<"e", "B", "a", "y">>, <<"n", "/", "a">>),
      SheetRow(<<"C", "-", "1">>, <<"C", "a", "b", "l", "e">>, 0, 0, 0, 2, <<"e", "B", "a", "y">>, <<"2", "0", "2", "4", "-", "0", "1", "-", "0", "2">>),
      BasisRow(<<"C">>, <<"C", "a", "b", "l", "e">>, 0, 0, 4, 4),
      SheetRow(<<>>, <<"N", "a", "m", "e", "l", "e", "s", "s">>, 3, 30, 1, 0, <<"e", "B", "a", "y">>, <<"2", "0", "2", "4", "-", "0", "1", "-", "0", "2">>),
      SheetRow(<<"D", "-", "1">>, <<>>, 3, 30, 1, 0, <<"e", "B", "a", "y">>, <<"2", "0", "2", "4", "-", "0", "1", "-", "0", "2">>) }

\* the date ranges of the picker: none, an open one (to defaults to now), a closed one
RangePool ==
    { None,
      Some([from |-> Some(86400000), to |-> None]),
      Some([from |-> Some(0), to |-> Some(86400000)]) }

\* a refund without stock beside a sale, three SKUs that differ in case only,
\* and the same row twice
CaseRows ==
    { <<SheetRow(<<"A", "-", "2">>, <<"S", "h", "o", "e", " ", "-", " ", "B", "l", "u", "e">>, 2, 20, 0, 1, <<"A", "m", "a", "z", "o", "n">>, <<"2", "0", "2", "4", "-", "0", "1", "-", "0", "2">>),
        SheetRow(<<"A", "-", "2">>, <<"S", "h", "o", "e", " ", "-", " ", "B", "l", "u", "e">>, 2, 20, 0, 1, <<"A", "m", "a", "z", "o", "n">>, <<"2", "0", "2", "4", "-", "0", "1", "-", "0", "2">>)>>,
      <<SheetRow(<<"R", "-", "1">>, <<"R", "e", "f", "u", "n", "d">>, 0, -5, 0, 0, <<"e", "B", "a", "y">>, <<"2", "0", "2", "4", "-", "0", "1", "-", "0", "2">>),
        SheetRow(<<"B", "-", "1">>, <<"G", "a", "d", "g", "e", "t">>, 9, 90, 14, 2, <<>>, <<"2", "0", "2", "4", "-", "0", "1", "-", "0", "3">>)>>,
      <<SheetRow(<<"b", "-", "1">>, <<"g", "a", "d", "g", "e", "t">>, 1, 10, 2, 0, <<"e", "B", "a", "y">>, <<"2", "0", "2", "4", "-", "0", "1", "-", "0", "2">>),
        SheetRow(<<"B", "-", "1">>, <<"G", "a", "d", "g", "e", "t">>, 9, 90, 14, 2, <<"A", "m", "a", "z", "o", "n">>, <<"2", "0", "2", "4", "-", "0", "1", "-", "0", "3">>),
        SheetRow(<<"b", "-", "2">>, <<"g", "a", "d", "g", "e", "t", "|", "X", "L">>, 2, 20, 0, 0, <<"A", "m", "a", "z", "o", "n">>, <<"2", "0", "2", "4", "-", "0", "1", "-", "0", "2">>)>> }

\* the rows are any list of at most MaxRows different rows of the pool, the
\* scenario, or one of the further lists
InitParse ==
    /\ \/ \E k \in 0..MaxRows : \E rows \in [1..k -> RowPool] :
             /\ \A i, j \in 1..k : rows[i] = rows[j] => i = j
             /\ pRows = rows
       \/ pRows = ScenarioRows
       \/ pRows \in CaseRows
    /\ pRange \in RangePool
    /\ pNow = 172800000
    /\ pOut = None
    /\ IdleStr /\ IdleAna /\ IdleHook /\ IdleStore

RunParseProductData ==
    /\ pOut = None
    /\ pOut' = Some(parseProductData(pRows, pRange, pNow))
    /\ UNCHANGED <<pRows, pRange, pNow, strVars, anaVars, hookVars, storeVars>>

NextParse == RunParseProductData

SpecParse == InitParse /\ [][NextParse]_vars

\* ------------------------------------------------------------ analytics runs

MaxProducts == 2

\* the aggregated product number i with the given sums; stock and orders are
\* chosen so that the product has activity and available = stock - orders
ProductOf(i, revenue, unitsSold, available) ==
    ToProductData([artikelBasis |-> <<"P", DigitChars[i + 1]>>,
                   produktBasis |-> <<"N", DigitChars[i + 1]>>,
                   unitsSold |-> unitsSold, revenue |-> revenue,
                   stockOnHand |-> IF available > 0 THEN available ELSE 1,
                   inOrders |-> IF available > 0 THEN 0 ELSE 1 - available,
                   available |-> available, salesChannel |-> <<>>,
                   variationsCount |-> 1])

RevenuePool == {0, 4, 12, 30}
UnitsPool == {0, 1, 30}
AvailablePool == {0, 6, 10, 11}

\* the product number i of a longer list: one unit sold, 11 available
ListedProduct(i, revenue) ==
    ToProductData([artikelBasis |-> <<"Q">> \o NatToStr(i),
                   produktBasis |-> <<"N">> \o NatToStr(i),
                   unitsSold |-> 1, revenue |-> revenue,
                   stockOnHand |-> 11, inOrders |-> 0,
                   available |-> 11, salesChannel |-> <<>>,
                   variationsCount |-> 1])

\* one product of revenue 1000; two products of revenue 400 and 600; a refund
\* that outweighs a sale; 22
\* products, 11 of a low and 11 of a high revenue in turn; 34 products, 11 of
\* revenue 1 among 23 of revenue 1000
ProductLists ==
    { <<ListedProduct(1, 1000)>>,
      <<ListedProduct(1, 400), ListedProduct(2, 600)>>,
      <<ListedProduct(1, -5), ListedProduct(2, 2)>>,
      [i \in 1..22 |-> ListedProduct(i, IF i % 2 = 1 THEN i ELSE 1000 + i)],
      [i \in 1..34 |-> ListedProduct(i, IF i % 3 = 1 /\ i <= 31 THEN 1 ELSE 1000)] }

\* the products are any list of at most MaxProducts products over the pools,
\* or one of the longer lists
InitAna ==
    /\ \/ \E k \in 0..MaxProducts :
             \E f \in [1..k -> RevenuePool \X UnitsPool \X AvailablePool] :
                aProducts = [i \in 1..k |-> ProductOf(i, f[i][1], f[i][2], f[i][3])]
       \/ aProducts \in ProductLists
    /\ aOut = None /\ IdleStr /\ IdleParse /\ IdleHook /\ IdleStore

RunGenerateSEORecommendations ==
    /\ aOut = None
    /\ aOut' = Some([fn |-> "generateSEORecommendations",
                     out |-> generateSEORecommendations(aProducts)])
    /\ UNCHANGED <<aProducts, strVars, parseVars, hookVars, storeVars>>

RunGenerateROASData ==
    /\ aOut = None
    /\ aOut' = Some([fn |-> "generateROASData", out |-> generateROASData(aProducts)])
    /\ UNCHANGED <<aProducts, strVars, parseVars, hookVars, storeVars>>

NextAna == RunGenerateSEORecommendations \/ RunGenerateROASData

SpecAna == InitAna /\ [][NextAna]_vars

\* ------------------------------------------------------------ column lookups

MaxKeys == 3

\* column labels as a sheet carries them: upper case, blanks, punctuation, umlauts
KeyPool == <<<<"V", "e", "r", "f", "ue", "g", "b", "a", "r">>, <<"B", "e", "s", "t", "a", "n", "d">>, <<"A", "u", "f", " ", "L", "a", "g", "e", "r">>, <<" ", "S", "T", "O", "C", "K", "_", "2", " ">>,
             <<"G", "r", "oe", "ss", "e">>, <<"E", "r", "l", "oe", "s", " ", "(", "E", "U", "R", ")">>>>

PatternPool == {PatStock, PatAvailable, PatRevenue}

\* the row that has the labels of the pool numbered by ks as its keys, in this
\* order; the value of a column is its number in the pool
RowOfKeys(ks) == [i \in 1..Len(ks) |-> [k |-> KeyPool[ks[i]], v |-> Num(ks[i])]] \o <<>>

\* the input is any row of at most MaxKeys distinct keys of the pool
InitCol ==
    /\ \E n \in 0..MaxKeys : \E ks \in [1..n -> DOMAIN KeyPool] :
          /\ \A i, j \in 1..n : ks[i] = ks[j] => i = j
          /\ sIn = RowOfKeys(ks)
    /\ sOut = None /\ IdleParse /\ IdleAna /\ IdleHook /\ IdleStore

RunFindColumn ==
    /\ sOut = None
    /\ \E patterns \in PatternPool :
          sOut' = Some([fn |-> "findColumn", patterns |-> patterns,
                        out |-> findColumn(sIn, patterns)])
    /\ UNCHANGED <<sIn, parseVars, anaVars, hookVars, storeVars>>

NextCol == RunFindColumn

SpecCol == InitCol /\ [][NextCol]_vars

\* ------------------------------------------------------------ the cache

CACHE_DURATION == 5 * 60 * 1000

\* A localStorage entry is None (no item) or Some(text); a text is the JSON
\* value it holds, an object being a record, or [notJSON |-> TRUE] for a text
\* that JSON.parse rejects.

\* JSON.stringify of the envelope: the Date lastUpdated is stored as its ISO string
stringify(envelope) == [envelope EXCEPT !.data.lastUpdated = <<"ISO", @>>]

\* setCachedProductData(data) at time clock: the new localStorage entry
setCachedProductData(parsed, clock) == Some(stringify([data |-> parsed, timestamp |-> clock]))

\* getCachedProductData() on the localStorage entry: JSON.parse, then lastUpdated
\* is made a Date again; JSON.parse throws on a text that is not JSON, and
\* parsed.data.lastUpdated throws when parsed has no data; both are caught
getCachedProductData(entry) ==
    IF entry = None THEN None
    ELSE LET parsed == entry[1]
         IN  IF "notJSON" \in DOMAIN parsed THEN None
             ELSE IF "data" \notin DOMAIN parsed THEN None
             ELSE IF "lastUpdated" \in DOMAIN parsed.data
                  THEN Some([parsed EXCEPT !.data.lastUpdated = @[2]])
             ELSE Some(parsed)

\* a freshness test that still takes an entry of exactly CACHE_DURATION
CacheFreshInclusive(cached, clock) == cached # None /\ clock - cached[1].timestamp <= CACHE_DURATION

\* cached && Date.now() - cached.timestamp < CACHE_DURATION
CacheFresh(cached, clock) == cached # None /\ clock - cached[1].timestamp < CACHE_DURATION

\* A cached product after JSON.parse, read as a raw row
\* (cached.data.products as unknown as RawProductRow[]): its keys in insertion order.
ProductAsRow(p) ==
    <<[k |-> <<"a", "r", "t", "i", "k", "e", "l", "B", "a", "s", "i", "s">>, v |-> Str(p.artikelBasis)],
      [k |-> <<"p", "r", "o", "d", "u", "k", "t", "B", "a", "s", "i", "s">>, v |-> Str(p.produktBasis)],
      [k |-> <<"u", "n", "i", "t", "s", "S", "o", "l", "d">>, v |-> Num(p.unitsSold)],
      [k |-> <<"r", "e", "v", "e", "n", "u", "e">>, v |-> Num(p.revenue)],
      [k |-> <<"s", "t", "o", "c", "k", "O", "n", "H", "a", "n", "d">>, v |-> Num(p.stockOnHand)],
      [k |-> <<"i", "n", "O", "r", "d", "e", "r", "s">>, v |-> Num(p.inOrders)],
      [k |-> <<"a", "v", "a", "i", "l", "a", "b", "l", "e">>, v |-> Num(p.available)],
      [k |-> <<"s", "t", "o", "c", "k", "S", "t", "a", "t", "u", "s">>, v |-> Str(<<p.stockStatus>>)],
      [k |-> <<"s", "a", "l", "e", "s", "C", "h", "a", "n", "n", "e", "l">>, v |-> Str(p.salesChannel)],
      [k |-> <<"v", "a", "r", "i", "a", "t", "i", "o", "n", "s", "C", "o", "u", "n", "t">>, v |-> Num(p.variationsCount)],
      [k |-> <<"a", "v", "g", "P", "r", "i", "c", "e">>, v |-> Frac(p.avgPrice.n, p.avgPrice.d)]>>

ProductsAsRows(products) == Map(products, ProductAsRow)

\* ------------------------------------------------------------ useProductData

MaxTicks == 1
MaxInflight == 2

\* The fetchData calls in flight are a bag of [pc, forced, primary, overlapped]:
\* the request the call awaits ("primary" or "fallback"), its forceRefresh
\* argument, what its primary request came back with, and whether the call is
\* a refresh() that has been in flight together with another refresh().
NoFetches == EmptyBag

InFlight(fs) == BagCardinality(fs)

\* the refresh() calls of the bag have now overlapped with another one
MarkOverlapped(fs) ==
    LET marked(f) == IF f.forced THEN [f EXCEPT !.overlapped = TRUE] ELSE f
    IN  [g \in {marked(f) : f \in DOMAIN fs} |->
            IF g.forced THEN CopiesIn(g, fs) + CopiesIn([g EXCEPT !.overlapped = FALSE], fs)
            ELSE CopiesIn(g, fs)]

\* a new call joins the calls in flight, awaiting its primary request
WithNewFetch(fs, forceRefresh) ==
    LET meets == forceRefresh /\ \E f \in DOMAIN fs : f.forced
        call == [pc |-> "primary", forced |-> forceRefresh, primary |-> "none",
                 overlapped |-> meets]
    IN  (IF forceRefresh THEN MarkOverlapped(fs) ELSE fs) (+) SetToBag({call})

\* call f has settled
Without(fs, f) == fs (-) SetToBag({f})

FetchError == "Failed to fetch product data"

\* the sheets the endpoint can serve
Datasets ==
    { <<>>,
      <<SheetRow(<<"A", "-", "1">>, <<"S", "h", "o", "e", " ", "-", " ", "R", "e", "d">>, 5, 50, 3, 0, <<"e", "B", "a", "y">>, <<"2", "0", "2", "4", "-", "0", "1", "-", "0", "1">>),
        SheetRow(<<"B", "-", "1">>, <<"G", "a", "d", "g", "e", "t">>, 9, 90, 14, 2, <<>>, <<"2", "0", "2", "4", "-", "0", "1", "-", "0", "3">>)>> }

\* What a request can come back with: a rejected promise, or a response with
\* its ok flag and the success flag and rows list of its JSON body.
Responses ==
    { [rejected |-> TRUE,  ok |-> FALSE, success |-> FALSE, rows |-> None],
      [rejected |-> FALSE, ok |-> FALSE, success |-> FALSE, rows |-> None],
      [rejected |-> FALSE, ok |-> TRUE,  success |-> FALSE, rows |-> None],
      [rejected |-> FALSE, ok |-> TRUE,  success |-> TRUE,  rows |-> None] }
    \cup { [rejected |-> FALSE, ok |-> TRUE, success |-> TRUE, rows |-> Some(ds)] : ds \in Datasets }

ResponseKind(resp) ==
    IF resp.rejected THEN "rejected"
    ELSE IF ~resp.ok THEN "notOk"
    ELSE IF ~resp.success THEN "successFalse"
    ELSE IF resp.rows = None THEN "noRows"
    ELSE "valid"

\* whether the response is one with ok, success and a rows list
Validity(resp) ==
    IF ~resp.rejected /\ resp.ok /\ resp.success /\ resp.rows # None THEN "valid" ELSE "invalid"

\* a try block that goes to the fallback on every failure of the primary request
PrimaryOutcomeRetrying(resp) ==
    IF resp.rejected \/ ~resp.ok \/ ~resp.success \/ resp.rows = None THEN "fallback"
    ELSE "set"

\* what the try block does with the primary response: "throw", "fallback" or "set"
PrimaryOutcome(resp) ==
    IF resp.rejected THEN "throw"
    ELSE IF ~resp.ok THEN "throw"
    ELSE IF ~resp.success THEN "fallback"
    ELSE IF resp.rows = None THEN "throw"
    ELSE "set"

\* what the try block does with the fallback response: "throw" or "set"
FallbackOutcome(resp) ==
    IF resp.rejected THEN "throw"
    ELSE IF ~resp.ok THEN "throw"
    ELSE IF ~resp.success \/ resp.rows = None THEN "throw"
    ELSE "set"

\* the date ranges the picker hands to the hook
HookRanges == { None, Some([from |-> Some(0), to |-> Some(86400000)]) }

\* useMemo: the parse of rawData under the date range, run at time clock
Memo(raw, range, clock) ==
    IF raw = None THEN None ELSE Some(parseProductData(raw[1], range, clock))

\* the localStorage entry after the useMemo callback has returned memo (it
\* writes the cache whenever it parses)
EntryAfterMemo(memo, clock, entry) ==
    IF memo = None THEN entry ELSE setCachedProductData(memo[1], clock)

\* The record of the last step of the hook: its kind; for a fetchData call its
\* forceRefresh argument, whether it started a request, the cache entry it read
\* and the time; for a settled call what its primary request came back with,
\* whether its fallback response was valid ("none" without a fallback request),
\* the rows it set and whether it is a refresh() that overlapped another.
\* seenNonEmpty is kept across steps: the last successful fetch gave a
\* non-empty product list and the date range has not changed since.
Step(kind, forced, requested, cached, primary, secondary, rows, overlapped, seen) ==
    [kind |-> kind, forced |-> forced, requested |-> requested, cached |-> cached,
     clock |-> now, primary |-> primary, secondary |-> secondary,
     fallbacks |-> IF secondary = "none" THEN 0 ELSE 1, rows |-> rows,
     overlapped |-> overlapped, seenNonEmpty |-> seen]

Init ==
    /\ rawData = None /\ loading = TRUE /\ error = None /\ dateRange = None
    /\ data = None /\ cache = None /\ now = 0
    /\ fetches = NoFetches
    /\ mounted = FALSE /\ last = NoStep
    /\ IdleStr /\ IdleParse /\ IdleAna /\ IdleStore

\* fetchData(forceRefresh) up to its first await, called in the hook state
\* (raw, err, dat) with the fetches fs in flight
FetchData(forceRefresh, raw, err, dat, fs) ==
    LET cached == getCachedProductData(cache)
    IN  IF ~forceRefresh /\ CacheFresh(cached, now)
        THEN \* cache hit: setRawData(cached.data.products); setLoading(false); return
             /\ rawData' = Some(ProductsAsRows(cached[1].data.products))
             /\ loading' = FALSE
             /\ error' = err
             /\ fetches' = fs
             /\ data' = Memo(rawData', dateRange, now)
             /\ cache' = EntryAfterMemo(data', now, cache)
             /\ last' = Step("hit", forceRefresh, InFlight(fetches') > InFlight(fs), cached,
                             "none", "none", None, FALSE,
                             last.seenNonEmpty)
        ELSE \* setLoading(true); setError(null); fetch(url with sheet=DASHBOARD_DATA)
             /\ InFlight(fs) < MaxInflight
             /\ rawData' = raw
             /\ loading' = TRUE
             /\ error' = None
             /\ fetches' = WithNewFetch(fs, forceRefresh)
             /\ data' = dat
             /\ cache' = cache
             /\ last' = Step("request", forceRefresh, InFlight(fetches') > InFlight(fs), cached,
                             "none", "none", None, FALSE,
                             last.seenNonEmpty)

\* The component mounts: the useState initial values, then the effect calls fetchData().
Mount ==
    /\ ~mounted
    /\ mounted' = TRUE
    /\ FetchData(FALSE, None, None, None, NoFetches)
    /\ UNCHANGED <<dateRange, now, strVars, parseVars, anaVars, storeVars>>

\* refresh(): fetchData(true)
Refresh ==
    /\ mounted
    /\ FetchData(TRUE, rawData, error, data, fetches)
    /\ UNCHANGED <<mounted, dateRange, now, strVars, parseVars, anaVars, storeVars>>

\* a catch block without the finally block: loading stays as it is
FailedKeepingLoading(f, primary, secondary) ==
    LET cached == getCachedProductData(cache)
    IN  /\ error' = Some(FetchError)
        /\ rawData' = IF cached # None THEN Some(ProductsAsRows(cached[1].data.products))
                      ELSE rawData
        /\ data' = IF cached # None THEN Memo(rawData', dateRange, now) ELSE data
        /\ cache' = IF cached # None THEN EntryAfterMemo(data', now, cache)
                    ELSE cache
        /\ loading' = loading
        /\ fetches' = Without(fetches, f)
        /\ last' = Step("failed", FALSE, FALSE, cached, primary, secondary, None,
                        f.overlapped, last.seenNonEmpty)

\* the catch and finally blocks of call f: setError, the cached rows if there
\* are any, setLoading(false)
Failed(f, primary, secondary) ==
    LET cached == getCachedProductData(cache)
    IN  /\ error' = Some(FetchError)
        /\ rawData' = IF cached # None THEN Some(ProductsAsRows(cached[1].data.products))
                      ELSE rawData
        /\ data' = IF cached # None THEN Memo(rawData', dateRange, now) ELSE data
        /\ cache' = IF cached # None THEN EntryAfterMemo(data', now, cache)
                    ELSE cache
        /\ loading' = FALSE
        /\ fetches' = Without(fetches, f)
        /\ last' = Step("failed", FALSE, FALSE, cached, primary, secondary, None,
                        f.overlapped, last.seenNonEmpty)

\* setRawData(rows) of call f, then the finally block
Succeeded(f, rows, primary, secondary) ==
    /\ rawData' = Some(rows)
    /\ data' = Memo(rawData', dateRange, now)
    /\ cache' = EntryAfterMemo(data', now, cache)
    /\ loading' = FALSE
    /\ error' = error
    /\ fetches' = Without(fetches, f)
    /\ last' = Step("success", FALSE, FALSE, None, primary, secondary, Some(rows),
                    f.overlapped, data'[1].products # <<>>)

\* the primary request of call f settles with resp
PrimaryResponseOf(f, resp) ==
    /\ mounted
    /\ f.pc = "primary"
    /\ CASE PrimaryOutcome(resp) = "throw" -> Failed(f, ResponseKind(resp), "none")
         [] PrimaryOutcome(resp) = "fallback" ->
                \* fetch(PRODUCT_API_URL), without the sheet parameter
                /\ fetches' = Without(fetches, f)
                                (+) SetToBag({[f EXCEPT !.pc = "fallback",
                                                        !.primary = ResponseKind(resp)]})
                /\ last' = Step("fallbackRequest", FALSE, TRUE, None, ResponseKind(resp),
                                "none", None, f.overlapped, last.seenNonEmpty)
                /\ UNCHANGED <<rawData, loading, error, data, cache>>
         [] PrimaryOutcome(resp) = "set" -> Succeeded(f, resp.rows[1], ResponseKind(resp), "none")
    /\ UNCHANGED <<mounted, dateRange, now, strVars, parseVars, anaVars, storeVars>>

\* the fallback request of call f settles with resp
FallbackResponseOf(f, resp) ==
    /\ mounted
    /\ f.pc = "fallback"
    /\ CASE FallbackOutcome(resp) = "throw" -> Failed(f, f.primary, Validity(resp))
         [] FallbackOutcome(resp) = "set" -> Succeeded(f, resp.rows[1], f.primary, Validity(resp))
    /\ UNCHANGED <<mounted, dateRange, now, strVars, parseVars, anaVars, storeVars>>

PrimaryResponse(resp) == \E f \in BagToSet(fetches) : PrimaryResponseOf(f, resp)

FallbackResponse(resp) == \E f \in BagToSet(fetches) : FallbackResponseOf(f, resp)

\* the date range prop changes: the useMemo callback runs again if there are rows
SetDateRange(range) ==
    /\ mounted
    /\ range # dateRange
    /\ dateRange' = range
    /\ data' = Memo(rawData, range, now)
    /\ cache' = EntryAfterMemo(data', now, cache)
    /\ last' = Step("dateRange", FALSE, FALSE, None, "none", "none", None, FALSE, FALSE)
    /\ UNCHANGED <<rawData, loading, error, fetches, mounted, now, strVars, parseVars, anaVars, storeVars>>

\* the component unmounts: its state is gone and the fetches in flight can no
\* longer set it; the localStorage entry stays
Unmount ==
    /\ mounted
    /\ mounted' = FALSE
    /\ rawData' = None /\ loading' = TRUE /\ error' = None /\ data' = None
    /\ fetches' = NoFetches
    /\ last' = Step("unmount", FALSE, FALSE, None, "none", "none", None, FALSE, last.seenNonEmpty)
    /\ UNCHANGED <<dateRange, cache, now, strVars, parseVars, anaVars, storeVars>>

\* time passes, a freshness window at a time
Tick ==
    /\ now < MaxTicks * CACHE_DURATION
    /\ now' = now + CACHE_DURATION
    /\ UNCHANGED <<rawData, loading, error, dateRange, data, cache, fetches, mounted, last,
                   strVars, parseVars, anaVars, storeVars>>

Next ==
    \/ Mount
    \/ Refresh
    \/ \E resp \in Responses : PrimaryResponse(resp)
    \/ \E resp \in Responses : FallbackResponse(resp)
    \/ \E range \in HookRanges : SetDateRange(range)
    \/ Unmount
    \/ Tick

Spec == Init /\ [][Next]_vars


\* ------------------------------------------------------------ the campaign cache (useGoogleSheetsData)

\* a row of the campaign sheet
CampaignRow(date, name, clicks) == [Date |-> date, CampaignName |-> name, Clicks |-> clicks]

\* In the payload of the campaign hook a Date is [date |-> its time] and the
\* ISO string JSON.stringify makes of it is [iso |-> its time].
DateAt(time) == [date |-> time]

toISOString(d) == [iso |-> d.date]

\* new Date(r.Date).getTime() for the dates of the modelled rows
TimeOf(r) == parseISO(r.Date)[1]

\* parseJsonToMetrics(rows) at time clock, without a date filter: the fields
\* of the result that hold dates and rows.  The fields left out (metrics,
\* dailyData, campaigns) hold numbers and strings only.
parseJsonToMetrics(rows, clock) ==
    IF rows = <<>> THEN [lastUpdated |-> DateAt(clock), rawRows |-> <<>>, dateRange |-> None]
    ELSE LET times == {TimeOf(rows[i]) : i \in DOMAIN rows}
             minDate == DateAt(CHOOSE t \in times : \A u \in times : t <= u)
             maxDate == DateAt(CHOOSE t \in times : \A u \in times : t >= u)
         IN  [lastUpdated |-> DateAt(clock), rawRows |-> rows,
              dateRange |-> Some([min |-> minDate, max |-> maxDate])]

\* JSON.stringify of the envelope of the campaign hook: every Date is stored
\* as its ISO string
stringifyData(envelope) ==
    [envelope EXCEPT !.data.lastUpdated = toISOString(@),
                     !.data.dateRange = IF @ = None THEN None
                                        ELSE Some([min |-> toISOString(@[1].min),
                                                   max |-> toISOString(@[1].max)])]

\* setCachedData(data) at time clock: the new localStorage entry
setCachedData(parsed, clock) == Some(stringifyData([data |-> parsed, timestamp |-> clock]))

\* getCachedData() on the localStorage entry
getCachedData(entry) ==
    IF entry = None THEN None
    ELSE LET parsed == entry[1]
         IN  IF "notJSON" \in DOMAIN parsed THEN None
             ELSE IF "data" \notin DOMAIN parsed THEN None
             ELSE IF "lastUpdated" \in DOMAIN parsed.data
                  THEN Some([parsed EXCEPT !.data.lastUpdated = DateAt(@.iso)])
             ELSE Some(parsed)

\* ------------------------------------------------------------ cache runs

\* the time of the first write or read
StoreStart == 1000

\* entries another version or another program left under the key: a text that
\* is not JSON, the text null, an object without data, an object with a data
\* that is not a parse result
ForeignEntries ==
    { Some([notJSON |-> TRUE]),
      Some([null |-> TRUE]),
      Some([timestamp |-> 1]),
      Some([data |-> [version |-> 1]]) }

\* parse results of the product hook
StoredProductData ==
    { parseProductData(rows, None, 0) :
        rows \in {<<>>, ScenarioRows} \cup {<<r>> : r \in RowPool} }

CampaignRows ==
    { <<>>,
      <<CampaignRow(<<"2", "0", "2", "4", "-", "0", "1", "-", "0", "2">>, "Brand", 7)>>,
      <<CampaignRow(<<"2", "0", "2", "4", "-", "0", "1", "-", "0", "3">>, "Brand", 7), CampaignRow(<<"2", "0", "2", "4", "-", "0", "1", "-", "0", "1">>, "Shoes", 2)>> }

\* parse results of the campaign hook
StoredCampaignData == { parseJsonToMetrics(rows, 0) : rows \in CampaignRows }

InitStore ==
    /\ lsHook \in {"product", "campaign"}
    /\ lsData \in {Some(x) : x \in IF lsHook = "product" THEN StoredProductData
                                   ELSE StoredCampaignData}
    /\ lsEntry \in {None} \cup ForeignEntries
    /\ lsNow = StoreStart
    /\ lsOut = None
    /\ IdleStr /\ IdleParse /\ IdleAna /\ IdleHook

\* setCachedProductData(data) / setCachedData(data) with a setItem that succeeds
WriteEntry ==
    /\ lsEntry' = IF lsHook = "product" THEN setCachedProductData(lsData[1], lsNow)
                  ELSE setCachedData(lsData[1], lsNow)
    /\ lsOut' = Some([op |-> "write", clock |-> lsNow, before |-> None, result |-> None])
    /\ UNCHANGED <<lsHook, lsData, lsNow, strVars, parseVars, anaVars, hookVars>>

\* the same with a setItem that throws (storage full or unavailable)
WriteFails ==
    /\ lsOut' = Some([op |-> "write failed", clock |-> lsNow, before |-> None, result |-> None])
    /\ UNCHANGED <<lsHook, lsData, lsEntry, lsNow, strVars, parseVars, anaVars, hookVars>>

\* getCachedProductData() / getCachedData(); before is the write or read before it
ReadEntry ==
    /\ lsOut' = Some([op |-> "read", clock |-> lsNow,
                      before |-> IF lsOut = None THEN None
                                 ELSE Some([op |-> lsOut[1].op, clock |-> lsOut[1].clock]),
                      result |-> IF lsHook = "product" THEN getCachedProductData(lsEntry)
                                 ELSE getCachedData(lsEntry)])
    /\ UNCHANGED <<lsHook, lsData, lsEntry, lsNow, strVars, parseVars, anaVars, hookVars>>

TickStore ==
    /\ lsNow < StoreStart + MaxTicks
    /\ lsNow' = lsNow + 1
    /\ UNCHANGED <<lsHook, lsData, lsEntry, lsOut, strVars, parseVars, anaVars, hookVars>>

NextStore == WriteEntry \/ WriteFails \/ ReadEntry \/ TickStore

SpecStore == InitStore /\ [][NextStore]_vars
\* ------------------------------------------------------------ properties of the extractors

\* t is s without its leading and trailing blanks
IsTrimOf(t, s) ==
    /\ t # <<>> => ~IsSpace(t[1]) /\ ~IsSpace(t[Len(t)])
    /\ \E a \in 0..Len(s) :
          /\ a + Len(t) <= Len(s)
          /\ SubSeq(s, a + 1, a + Len(t)) = t
          /\ \A i \in (1..a) \cup ((a + Len(t) + 1)..Len(s)) : IsSpace(s[i])

\* C10: extractArtikelBasis returns, trimmed, the part of the SKU before its
\* first dash, or the whole SKU when it holds no dash; the empty SKU gives the
\* empty string; a dash at position 0 counts as not found, so a SKU that
\* starts with a dash is returned whole and is never cut down to the empty string.
ArtikelBasisContract ==
    (sOut # None /\ sOut[1].fn = "extractArtikelBasis") =>
        LET out == sOut[1].out
            dashes == {i \in 1..Len(sIn) : sIn[i] = "-"}
        IN  /\ sIn = <<>> => out = <<>>
            /\ dashes = {} => IsTrimOf(out, sIn)
            /\ dashes # {} =>
                  LET first == CHOOSE i \in dashes : \A j \in dashes : i <= j
                  IN  IF first = 1 THEN IsTrimOf(out, sIn) /\ out # <<>>
                      ELSE IsTrimOf(out, SubSeq(sIn, 1, first - 1))

\* a SKU of several characters that starts with a dash has come back whole
ArtikelBasisLeadingDash ==
    /\ sOut # None /\ sOut[1].fn = "extractArtikelBasis"
    /\ Len(sIn) > 1 /\ sIn[1] = "-" /\ sIn[2] # " "
    /\ sOut[1].out = sIn


\* C11 as stated: the base id extractor applied to "AB-100-red" returns "AB-100".
ArtikelBasisOfExampleLastDash ==
    (sOut # None /\ sOut[1].fn = "extractArtikelBasis" /\ sIn = <<"A", "B", "-", "1", "0", "0", "-", "r", "e", "d">>) =>
        sOut[1].out = <<"A", "B", "-", "1", "0", "0">>

\* C11: the base id extractor applied to "AB-100-red" returns "AB", the part
\* before the first dash; applied to "AB" it returns "AB" and applied to
\* "-AB" it returns "-AB".
ArtikelBasisOfExample ==
    (sOut # None /\ sOut[1].fn = "extractArtikelBasis") =>
        /\ sIn = <<"A", "B", "-", "1", "0", "0", "-", "r", "e", "d">> => sOut[1].out = <<"A", "B">>
        /\ sIn = <<"A", "B">> => sOut[1].out = <<"A", "B">>
        /\ sIn = <<"-", "A", "B">> => sOut[1].out = <<"-", "A", "B">>

\* the extractor has run on "AB-100-red"
ArtikelBasisExampleRun ==
    /\ sOut # None /\ sOut[1].fn = "extractArtikelBasis"
    /\ sIn = <<"A", "B", "-", "1", "0", "0", "-", "r", "e", "d">> /\ sOut[1].out = <<"A", "B">>

\* the 1-based positions after the first of a string that hold a separator
SeparatorsAfterFirst(s, seps) == {i \in 2..Len(s) : s[i] \in seps}

\* the separators whose first occurrence is not the first character
FoundSeparators(s) == {c \in {"-", "|"} : \E i \in 1..Len(s) : s[i] = c /\ s[1] # c}

\* C12: extractProduktBasis returns, trimmed, the part of the name before
\* whichever of '-' and '|' occurs first, or the whole name when neither is
\* present; a separator whose first occurrence is at position 0 counts as not
\* found; "Shoe - Red | L" gives "Shoe".
ProduktBasisContract ==
    (sOut # None /\ sOut[1].fn = "extractProduktBasis") =>
        LET out == sOut[1].out
            cuts == SeparatorsAfterFirst(sIn, FoundSeparators(sIn))
        IN  /\ cuts = {} => IsTrimOf(out, sIn)
            /\ cuts # {} =>
                  LET first == CHOOSE i \in cuts : \A j \in cuts : i <= j
                  IN  IsTrimOf(out, SubSeq(sIn, 1, first - 1))
            /\ sIn = <<"S", "h", "o", "e", " ", "-", " ", "R", "e", "d", " ", "|", " ", "L">> => out = <<"S", "h", "o", "e">>

\* the name "Shoe - Red | L" has been cut to "Shoe"
ProduktBasisExampleRun ==
    /\ sOut # None /\ sOut[1].fn = "extractProduktBasis"
    /\ sIn = <<"S", "h", "o", "e", " ", "-", " ", "R", "e", "d", " ", "|", " ", "L">> /\ sOut[1].out = <<"S", "h", "o", "e">>
\* ------------------------------------------------------------ properties of the parser

\* the rows that pass the date filter and resolve to a base id and a base name
ResolvedRows == RawProducts(DateFilter(pRows, pRange, pNow))

RowsOfBase(rows, artikelBasis) == SelectSeq(rows, LAMBDA r : r.artikelBasis = artikelBasis)

\* the classifier as the table states it
Classify(available) ==
    CASE available > 10 -> "healthy"
      [] available >= 1 /\ available <= 10 -> "warning"
      [] available < 1 -> "critical"

MaxAvailable == 12

\* the stockStatus of every product is the class of the available of its rows
ClassifiedBySum(products, resolved) ==
    \A i \in DOMAIN products :
       LET variants == RowsOfBase(resolved, products[i].artikelBasis)
       IN  products[i].stockStatus
              = Classify(Sum([j \in 1..Len(variants) |-> variants[j].available]))

\* C9: the stock classifier is total on available: healthy above 10, warning
\* from 1 to 10, critical below 1 (0 and the negatives included); and the
\* stockStatus of every returned product is the classifier applied to the sum
\* of available over the rows of its base id.
StockStatusContract ==
    /\ \A a \in (-MaxAvailable)..MaxAvailable : getStockStatus(a) = Classify(a)
    /\ pOut # None => ClassifiedBySum(pOut[1].products, ResolvedRows)

\* a returned product of two variations whose summed available is negative
StockStatusOfNegativeSum ==
    /\ pOut # None
    /\ \E i \in DOMAIN pOut[1].products :
          /\ pOut[1].products[i].variationsCount >= 2
          /\ pOut[1].products[i].available < 0
          /\ pOut[1].products[i].stockStatus = "critical"

\* the rows of a list whose base id sums to some revenue, units or stock
ActiveRows(rows) ==
    SelectSeq(rows, LAMBDA r :
        LET group == RowsOfBase(rows, r.artikelBasis)
        IN  \/ Sum([j \in 1..Len(group) |-> group[j].revenue]) > 0
            \/ Sum([j \in 1..Len(group) |-> group[j].unitsSold]) > 0
            \/ Sum([j \in 1..Len(group) |-> group[j].stockOnHand]) > 0)

\* the returned products account for the rows: as many variations as rows, and
\* the same sums of revenue, unitsSold, stockOnHand, inOrders and available
Accounts(products, rows) ==
    /\ Sum([i \in 1..Len(products) |-> products[i].variationsCount]) = Len(rows)
    /\ Sum([i \in 1..Len(products) |-> products[i].revenue])
          = Sum([j \in 1..Len(rows) |-> rows[j].revenue])
    /\ Sum([i \in 1..Len(products) |-> products[i].unitsSold])
          = Sum([j \in 1..Len(rows) |-> rows[j].unitsSold])
    /\ Sum([i \in 1..Len(products) |-> products[i].stockOnHand])
          = Sum([j \in 1..Len(rows) |-> rows[j].stockOnHand])
    /\ Sum([i \in 1..Len(products) |-> products[i].inOrders])
          = Sum([j \in 1..Len(rows) |-> rows[j].inOrders])
    /\ Sum([i \in 1..Len(products) |-> products[i].available])
          = Sum([j \in 1..Len(rows) |-> rows[j].available])

\* C1 as stated: parseProductData conserves the filtered rows (the rows that
\* pass the date filter and have a base id and a base name): the variation
\* counts of the returned products add up to the number of filtered rows, and
\* their revenue, unitsSold, stockOnHand, inOrders and available add up to
\* the sums over the filtered rows.
ConservesFilteredRows == pOut # None => Accounts(pOut[1].products, ResolvedRows)

\* the products account for the rows, one product for the rows of each base id
Partitions(products, active) ==
    /\ Accounts(products, active)
    /\ \A i, j \in DOMAIN products :
          products[i].artikelBasis = products[j].artikelBasis => i = j
    /\ {products[i].artikelBasis : i \in DOMAIN products}
          = {active[j].artikelBasis : j \in DOMAIN active}
    /\ \A i \in DOMAIN products :
          products[i].variationsCount
             = Len(RowsOfBase(active, products[i].artikelBasis))

\* C1: parseProductData conserves the filtered rows of the base ids it keeps:
\* over the filtered rows whose base id sums to a positive revenue, unitsSold
\* or stockOnHand, the variation counts of the returned products add up to
\* the number of rows and the five sums agree; each returned product stands
\* for exactly the rows of one such base id.
ConservesActiveRows == pOut # None => Partitions(pOut[1].products, ActiveRows(ResolvedRows))

\* a parse that folded two rows into one product and dropped a row without activity
NoiseRowDropped ==
    /\ pOut # None
    /\ \E i \in DOMAIN pOut[1].products : pOut[1].products[i].variationsCount = 2
    /\ Len(ActiveRows(ResolvedRows)) < Len(ResolvedRows)

\* the product of the list with this base id, reduced to the fields of the scenario
ScenarioFields(p) ==
    [artikelBasis |-> p.artikelBasis, unitsSold |-> p.unitsSold, revenue |-> p.revenue,
     stockOnHand |-> p.stockOnHand, variationsCount |-> p.variationsCount,
     stockStatus |-> p.stockStatus]

\* C2: the three rows A-1 (Widget-Red, 5 units, revenue 50, stock 3), A-2
\* (Widget-Blue, 2, 20, 0) and B-1 (Gadget, 100, 1000, 50), parsed without a
\* date filter, give exactly the products A (7 units, revenue 70, stock 3,
\* 2 variations, warning) and B (100, 1000, 50, 1 variation, healthy); B is in
\* the opportunities with type ads_invest; no critical stock alert is emitted.
ScenarioResult ==
    (pOut # None /\ pRows = ScenarioRows /\ pRange = None) =>
        LET out == pOut[1]
        IN  /\ [i \in 1..Len(out.products) |-> ScenarioFields(out.products[i])]
                 = << [artikelBasis |-> <<"A">>, unitsSold |-> 7, revenue |-> 70,
                       stockOnHand |-> 3, variationsCount |-> 2, stockStatus |-> "warning"],
                      [artikelBasis |-> <<"B">>, unitsSold |-> 100, revenue |-> 1000,
                       stockOnHand |-> 50, variationsCount |-> 1, stockStatus |-> "healthy"] >>
            /\ \E i \in DOMAIN out.seoOpportunities :
                  /\ out.seoOpportunities[i].artikelBasis = <<"B">>
                  /\ out.seoOpportunities[i].type = "ads_invest"
            /\ out.criticalAlerts = <<>>
            /\ \A i \in DOMAIN out.roasData.alerts : out.roasData.alerts[i] # "critical"
            /\ out.metrics.criticalStock = 0

\* the scenario has been parsed
ScenarioParsed ==
    /\ pOut # None /\ pRows = ScenarioRows /\ pRange = None
    /\ Len(pOut[1].products) = 2


\* the sums of a group of resolved rows
GroupRevenue(group) == Sum([j \in 1..Len(group) |-> group[j].revenue])
GroupUnitsSold(group) == Sum([j \in 1..Len(group) |-> group[j].unitsSold])
GroupStockOnHand(group) == Sum([j \in 1..Len(group) |-> group[j].stockOnHand])

\* a product is returned for a base id exactly when the sums of its rows are not all zero
ReturnedUnlessAllZero(products, resolved) ==
    \A j \in DOMAIN resolved :
       LET group == RowsOfBase(resolved, resolved[j].artikelBasis)
       IN  (\E i \in DOMAIN products : products[i].artikelBasis = resolved[j].artikelBasis)
              <=> ~(/\ GroupRevenue(group) = 0
                    /\ GroupUnitsSold(group) = 0
                    /\ GroupStockOnHand(group) = 0)

\* C13: after grouping, a product is dropped if and only if its summed
\* revenue, unitsSold and stockOnHand are all zero; every group with one of
\* the three sums non-zero is returned.
DroppedIffAllZero == pOut # None => ReturnedUnlessAllZero(pOut[1].products, ResolvedRows)

\* what the rows that pass the date filter resolve to, kept or not
ResolutionOfRows == Map(DateFilter(pRows, pRange, pNow), RawProduct)

\* no product is without a base id or a base name, and every product counts
\* and sums the rows of its base id that have a base id and a base name
MadeOfRowsWithBase(products, resolution) ==
    /\ \A i \in DOMAIN products :
          /\ products[i].artikelBasis # <<>>
          /\ products[i].produktBasis # <<>>
    /\ \A i \in DOMAIN products :
          LET rows == SelectSeq(resolution,
                                LAMBDA r : /\ r.artikelBasis = products[i].artikelBasis
                                           /\ r.produktBasis # <<>>)
          IN  /\ products[i].variationsCount = Len(rows)
              /\ Accounts(<<products[i]>>, rows)

\* C14: a raw row whose resolved base id or base name is empty is excluded
\* from the aggregation: no returned product has an empty artikelBasis or
\* produktBasis, and the variation count and the sums of every returned
\* product are those of the rows of its base id that have a base name: a row
\* without one adds nothing to them.
ExcludesUnresolvedRows == pOut # None => MadeOfRowsWithBase(pOut[1].products, ResolutionOfRows)

\* a parse of a row without a base id and a row without a base name beside a
\* row that became a product
UnresolvedRowsExcluded ==
    /\ pOut # None
    /\ Len(pOut[1].products) = 1
    /\ \E j \in DOMAIN ResolutionOfRows : ResolutionOfRows[j].artikelBasis = <<>>
    /\ \E j \in DOMAIN ResolutionOfRows : ResolutionOfRows[j].produktBasis = <<>>

\* every number of the cells of the rows is non-negative
NonNegativeRows ==
    \A j \in DOMAIN pRows : \A c \in DOMAIN pRows[j] :
       pRows[j][c].v.t = "num" => pRows[j][c].v.n >= 0

\* C15 as stated: for raw rows whose numeric columns are all non-negative,
\* every returned product has non-negative unitsSold, revenue, stockOnHand,
\* inOrders and available.
NonNegativeFields ==
    (pOut # None /\ NonNegativeRows) =>
        \A i \in DOMAIN pOut[1].products :
           LET p == pOut[1].products[i]
           IN  /\ p.unitsSold >= 0 /\ p.revenue >= 0 /\ p.stockOnHand >= 0
               /\ p.inOrders >= 0 /\ p.available >= 0

\* what the rows that pass the date filter resolve to, each with its available column
ResolutionWithAvailable ==
    Map(DateFilter(pRows, pRange, pNow),
        LAMBDA row : [product |-> RawProduct(row), column |-> findColumn(row, PatAvailable)])

\* what a row gives for available: its available column when that holds a
\* number other than 0, its stock less its orders otherwise
AvailableOfRow(r) ==
    IF r.column.t = "num" /\ r.column.n # 0 THEN r.column.n
    ELSE r.product.stockOnHand - r.product.inOrders

NonNegativeButAvailable(products, resolution) ==
    \A i \in DOMAIN products :
       LET p == products[i]
           rows == SelectSeq(resolution,
                             LAMBDA r : /\ r.product.artikelBasis = p.artikelBasis
                                        /\ r.product.produktBasis # <<>>)
       IN  /\ p.unitsSold >= 0 /\ p.revenue >= 0 /\ p.stockOnHand >= 0
           /\ p.inOrders >= 0
           /\ p.available = Sum([j \in 1..Len(rows) |-> AvailableOfRow(rows[j])])
           /\ p.available >= -p.inOrders

\* C15: for raw rows whose numeric columns are all non-negative, every
\* returned product has non-negative unitsSold, revenue, stockOnHand and
\* inOrders; its available is the sum over its rows of the available column
\* or, where that column is missing or 0, of stock less in-orders, and it is
\* never below -inOrders.
NonNegativeFieldsButAvailable ==
    (pOut # None /\ NonNegativeRows) =>
        NonNegativeButAvailable(pOut[1].products, ResolutionWithAvailable)

\* a product of non-negative rows whose available is negative
NegativeAvailable ==
    /\ pOut # None /\ NonNegativeRows
    /\ \E i \in DOMAIN pOut[1].products : pOut[1].products[i].available < 0

GroupedByEquality(products, resolved) ==
    /\ \A i, j \in DOMAIN products :
          products[i].artikelBasis = products[j].artikelBasis => i = j
    /\ \A i \in DOMAIN products :
          /\ products[i].variationsCount >= 1
          /\ products[i].variationsCount
                = Cardinality({j \in DOMAIN resolved :
                                  resolved[j].artikelBasis = products[i].artikelBasis})

\* C16: within one parse result every artikelBasis is unique, the rows are
\* grouped by exact string equality of the base id (base ids that differ in
\* case are different products), and every returned product has
\* variationsCount >= 1.
UniqueBaseIds == pOut # None => GroupedByEquality(pOut[1].products, ResolvedRows)

\* a parse that returned two products whose base ids differ in case only, one
\* of them of two variations
BaseIdsDifferingInCase ==
    /\ pOut # None
    /\ \E i, j \in DOMAIN pOut[1].products :
          /\ i # j
          /\ toLowerCase(pOut[1].products[i].artikelBasis)
                = toLowerCase(pOut[1].products[j].artikelBasis)
          /\ pOut[1].products[i].variationsCount = 2

\* every product has the channel of the variant number k of its rows, of the
\* last one for k = 0
ChannelOfVariant(products, resolved, k) ==
    \A i \in DOMAIN products :
       LET variants == RowsOfBase(resolved, products[i].artikelBasis)
       IN  products[i].salesChannel
              = variants[IF k = 0 THEN Len(variants) ELSE k].salesChannel

\* C17 as stated: the salesChannel of an aggregated product is the channel
\* label of the last variant row, in row order, folded into it.
SalesChannelOfLastVariant == pOut # None => ChannelOfVariant(pOut[1].products, ResolvedRows, 0)

\* C17: the salesChannel of an aggregated product is the channel label of the
\* first variant row, in row order, folded into it; the later rows leave it alone.
SalesChannelOfFirstVariant == pOut # None => ChannelOfVariant(pOut[1].products, ResolvedRows, 1)

\* a product of several variations whose first and last rows name different channels
VariantsOfOtherChannel(products, resolved) ==
    \E i \in DOMAIN products :
       LET variants == RowsOfBase(resolved, products[i].artikelBasis)
       IN  /\ Len(variants) >= 2
           /\ variants[1].salesChannel # variants[Len(variants)].salesChannel
           /\ products[i].salesChannel = variants[1].salesChannel

ChannelsOfVariantsDiffer == pOut # None /\ VariantsOfOtherChannel(pOut[1].products, ResolvedRows)
\* ------------------------------------------------------------ properties of the recommendations

\* The rule table.  With n products, revenue sum sr and unit sum su, the means
\* are sr / n and su / n (0 when n = 0), so that x > 1.5 * mean is
\* 2 * n * x > 3 * sr, and likewise for the other factors.
RuleApplies(type, p, n, sr, su) ==
    CASE type = "ads_invest"  -> 2 * n * p.revenue > 3 * sr /\ p.stockStatus = "healthy"
      [] type = "opportunity" -> 10 * n * p.revenue < 3 * sr /\ p.available > 10
      [] type = "optimize"    -> 10 * n * p.unitsSold < 2 * su /\ p.available > 5
      [] type = "waste"       -> p.stockStatus = "critical" /\ n * p.unitsSold > su
      [] type = "ads_reduce"  -> 10 * n * p.revenue < sr /\ 10 * n * p.unitsSold < su

RulePriority(type) ==
    CASE type = "ads_invest"  -> "high"
      [] type = "opportunity" -> "medium"
      [] type = "optimize"    -> "low"
      [] type = "waste"       -> "high"
      [] type = "ads_reduce"  -> "medium"

\* the entries the table gives for the rules of one list, in product order then rule order
RECURSIVE TableEntries(_, _, _)
TableEntries(products, rules, k) ==
    IF k > Len(products) THEN <<>>
    ELSE LET n  == Len(products)
             sr == Sum([i \in 1..n |-> products[i].revenue])
             su == Sum([i \in 1..n |-> products[i].unitsSold])
             applying == SelectSeq(rules, LAMBDA type : RuleApplies(type, products[k], n, sr, su))
         IN  [j \in 1..Len(applying) |->
                 [artikelBasis |-> products[k].artikelBasis, type |-> applying[j],
                  priority |-> RulePriority(applying[j])]]
             \o TableEntries(products, rules, k + 1)

EntryFields(list) ==
    [i \in 1..Len(list) |->
        [artikelBasis |-> list[i].artikelBasis, type |-> list[i].type,
         priority |-> list[i].priority]]

\* C8: generateSEORecommendations is the rule table: each product gets one
\* ads_invest/high entry iff revenue > 1.5 * avgRevenue and it is healthy, one
\* opportunity/medium entry iff revenue < 0.3 * avgRevenue and available > 10,
\* one optimize/low entry iff unitsSold < 0.2 * avgUnits and available > 5,
\* one waste/high entry iff it is critical and unitsSold > avgUnits, and one
\* ads_reduce/medium entry iff revenue < 0.1 * avgRevenue and unitsSold <
\* 0.1 * avgUnits; the first three kinds make up the opportunities list, the
\* last two the waste list, in product order then rule order.
RuleTableContract ==
    (aOut # None /\ aOut[1].fn = "generateSEORecommendations") =>
        /\ EntryFields(aOut[1].out.opportunities)
              = TableEntries(aProducts, <<"ads_invest", "opportunity", "optimize">>, 1)
        /\ EntryFields(aOut[1].out.waste)
              = TableEntries(aProducts, <<"waste", "ads_reduce">>, 1)

\* a run that gave one product an ads_invest entry followed by an optimize
\* entry, and put a waste entry on the waste list
RulesOfBothLists ==
    /\ aOut # None /\ aOut[1].fn = "generateSEORecommendations"
    /\ \E i, j \in DOMAIN aOut[1].out.opportunities :
          /\ i < j
          /\ aOut[1].out.opportunities[i].artikelBasis = aOut[1].out.opportunities[j].artikelBasis
          /\ aOut[1].out.opportunities[i].type = "ads_invest"
          /\ aOut[1].out.opportunities[j].type = "optimize"
    /\ \E i \in DOMAIN aOut[1].out.waste : aOut[1].out.waste[i].type = "waste"


\* ------------------------------------------------------------ properties of the ROAS summary

TotalRevenueOf(products) == Sum([i \in 1..Len(products) |-> products[i].revenue])

RECURSIVE Gcd(_, _)
Gcd(a, b) == IF b = 0 THEN a ELSE Gcd(b, a % b)

\* the fraction n/d, d > 0, in lowest terms
Lowest(r) ==
    LET g == Gcd(IF r.n < 0 THEN -r.n ELSE r.n, r.d)
    IN  [n |-> r.n \div g, d |-> r.d \div g]

IsProfitable(p, n, sr) == n * p.revenue > sr
IsUnprofitable(p, n, sr) == 10 * n * p.revenue < 3 * sr /\ p.revenue > 0

\* list holds, without repetition, min(10, number of candidates) candidates,
\* none of which comes after a candidate that Before puts first
IsFirstTen(list, candidates, Before(_, _)) ==
    /\ \A i \in DOMAIN list : \E j \in DOMAIN candidates : candidates[j] = list[i]
    /\ \A i, j \in DOMAIN list : list[i] = list[j] => i = j
    /\ Len(list) = Min(10, Len(candidates))
    /\ \A i, j \in DOMAIN list : i < j => ~Before(list[j], list[i])
    /\ \A j \in DOMAIN candidates :
          (\A i \in DOMAIN list : list[i] # candidates[j]) =>
              \A i \in DOMAIN list : ~Before(candidates[j], list[i])

\* C19: the profitable list is the up to 10 products of the highest revenue
\* among those with revenue > avgRevenue, in descending order of revenue; the
\* unprofitable list is the up to 10 products of the lowest revenue among
\* those with 0 < revenue < 0.3 * avgRevenue, in ascending order of revenue;
\* no product is on both lists.
SegmentsContract ==
    (aOut # None /\ aOut[1].fn = "generateROASData") =>
        LET out == aOut[1].out
            n == Len(aProducts)
            sr == TotalRevenueOf(aProducts)
        IN  /\ IsFirstTen(out.profitableProducts,
                          SelectSeq(aProducts, LAMBDA p : IsProfitable(p, n, sr)),
                          LAMBDA a, b : a.revenue > b.revenue)
            /\ IsFirstTen(out.unprofitableProducts,
                          SelectSeq(aProducts, LAMBDA p : IsUnprofitable(p, n, sr)),
                          LAMBDA a, b : a.revenue < b.revenue)
            /\ \A i \in DOMAIN out.profitableProducts :
                  \A j \in DOMAIN out.unprofitableProducts :
                     out.profitableProducts[i] # out.unprofitableProducts[j]

\* a summary whose two lists were both cut to 10 products
SegmentsCut ==
    /\ aOut # None /\ aOut[1].fn = "generateROASData"
    /\ Len(aOut[1].out.profitableProducts) = 10
    /\ Len(aOut[1].out.unprofitableProducts) = 10
    /\ Len(SelectSeq(aProducts, LAMBDA p : IsProfitable(p, Len(aProducts), TotalRevenueOf(aProducts)))) > 10
    /\ Len(SelectSeq(aProducts, LAMBDA p : IsUnprofitable(p, Len(aProducts), TotalRevenueOf(aProducts)))) > 10

\* C20: generateROASData emits the under-performance warning whenever the
\* number of products with 0 < revenue < 0.3 * avgRevenue exceeds 30 % of the
\* number of products, whatever that number: the alerts hold one warning for
\* it, beside the warning of a ROAS below 3.
UnderPerformanceWarning ==
    (aOut # None /\ aOut[1].fn = "generateROASData") =>
        LET out == aOut[1].out
            n == Len(aProducts)
            sr == TotalRevenueOf(aProducts)
            unprofitable == Len(SelectSeq(aProducts, LAMBDA p : IsUnprofitable(p, n, sr)))
            roasWarning == out.overallROAS.n < 3 * out.overallROAS.d
            warnings == Len(SelectSeq(out.alerts, LAMBDA type : type = "warning"))
        IN  10 * unprofitable > 3 * n =>
                warnings = (IF roasWarning THEN 1 ELSE 0) + 1

\* ------------------------------------------------------------ properties of the alerts and the rules

CountOf(list, x) == Len(SelectSeq(list, LAMBDA e : e = x))

\* the alerts hold one critical alert when a product is critical, by its
\* stockStatus and by the available of its rows alike, and none otherwise
OneCriticalAlertIffCritical(alerts, products, resolved) ==
    /\ CountOf(alerts, "critical")
          = (IF \E i \in DOMAIN products : products[i].stockStatus = "critical" THEN 1 ELSE 0)
    /\ CountOf(alerts, "critical")
          = (IF \E i \in DOMAIN products :
                   LET variants == RowsOfBase(resolved, products[i].artikelBasis)
                   IN  Sum([j \in 1..Len(variants) |-> variants[j].available]) < 1
             THEN 1 ELSE 0)

\* C21: generateROASData emits exactly one alert of type critical if and only
\* if at least one aggregated product has stockStatus critical, that is, a
\* summed available below 1; a variant row without stock whose base product
\* sums to an available of at least 1 causes no critical alert.
CriticalAlertContract ==
    pOut # None =>
        OneCriticalAlertIffCritical(pOut[1].roasData.alerts, pOut[1].products, ResolvedRows)

VariantWithoutStockFolded(alerts, products, resolved) ==
    /\ CountOf(alerts, "critical") = 0
    /\ \E i \in DOMAIN products :
          /\ products[i].available >= 1
          /\ \E j \in DOMAIN resolved :
                /\ resolved[j].artikelBasis = products[i].artikelBasis
                /\ resolved[j].stockOnHand = 0 /\ resolved[j].available < 1

\* a parse without a critical alert of a product that has a variant row
\* without stock, and a parse with the alert
NoAlertForFoldedVariant ==
    /\ pOut # None
    /\ VariantWithoutStockFolded(pOut[1].roasData.alerts, pOut[1].products, ResolvedRows)

\* C29: for every product list exactly one ROAS alert is emitted, as the first
\* alert: the info alert (ROAS >= 4) if and only if totalRevenue > 0, the
\* warning alert (ROAS < 3) if and only if totalRevenue <= 0, the empty list
\* included; no list gives an overallROAS from 3 up to 4, where neither is emitted.
OneROASAlert ==
    (aOut # None /\ aOut[1].fn = "generateROASData") =>
        LET out == aOut[1].out
            total == TotalRevenueOf(aProducts)
            roas == Lowest(out.overallROAS)
        IN  /\ out.alerts # <<>>
            /\ total > 0 =>
                  /\ out.alerts[1] = "info" /\ CountOf(out.alerts, "info") = 1
                  /\ roas.n >= 4 * roas.d
            /\ total <= 0 =>
                  /\ out.alerts[1] = "warning" /\ CountOf(out.alerts, "info") = 0
                  /\ CountOf(out.alerts, "warning") = 1
                  /\ roas.n < 3 * roas.d
            /\ ~(roas.n >= 3 * roas.d /\ roas.n < 4 * roas.d)

\* the summary of a list whose refunds outweigh its sales has the warning alone
ROASAlertOfNegativeTotal ==
    /\ aOut # None /\ aOut[1].fn = "generateROASData"
    /\ TotalRevenueOf(aProducts) < 0
    /\ aOut[1].out.alerts = <<"warning">>

\* the types of the entries of both lists for one product
TypesOf(out, artikelBasis) ==
    {out.opportunities[i].type :
        i \in {k \in DOMAIN out.opportunities : out.opportunities[k].artikelBasis = artikelBasis}}
    \cup
    {out.waste[i].type :
        i \in {k \in DOMAIN out.waste : out.waste[k].artikelBasis = artikelBasis}}

EntriesOf(out, artikelBasis) ==
    Len(SelectSeq(out.opportunities, LAMBDA e : e.artikelBasis = artikelBasis))
    + Len(SelectSeq(out.waste, LAMBDA e : e.artikelBasis = artikelBasis))

NonNegativeSales(products) ==
    \A i \in DOMAIN products : products[i].revenue >= 0 /\ products[i].unitsSold >= 0

\* C30: for products of non-negative revenue and unitsSold, no product gets
\* ads_invest together with opportunity, waste or ads_reduce, and none gets
\* waste together with opportunity, optimize or ads_reduce; so a product gets
\* at most three recommendations and never a high-priority entry on each list.
RulesExcludeOneAnother ==
    (aOut # None /\ aOut[1].fn = "generateSEORecommendations" /\ NonNegativeSales(aProducts)) =>
        \A i \in DOMAIN aProducts :
           LET types == TypesOf(aOut[1].out, aProducts[i].artikelBasis)
           IN  /\ "ads_invest" \in types =>
                     types \cap {"opportunity", "waste", "ads_reduce"} = {}
               /\ "waste" \in types =>
                     types \cap {"opportunity", "optimize", "ads_reduce"} = {}
               /\ EntriesOf(aOut[1].out, aProducts[i].artikelBasis) <= 3
               /\ ~(/\ \E k \in DOMAIN aOut[1].out.opportunities :
                          /\ aOut[1].out.opportunities[k].artikelBasis = aProducts[i].artikelBasis
                          /\ aOut[1].out.opportunities[k].priority = "high"
                    /\ \E k \in DOMAIN aOut[1].out.waste :
                          /\ aOut[1].out.waste[k].artikelBasis = aProducts[i].artikelBasis
                          /\ aOut[1].out.waste[k].priority = "high")

\* a product with the three recommendations that go together
ThreeRecommendations ==
    /\ aOut # None /\ aOut[1].fn = "generateSEORecommendations" /\ NonNegativeSales(aProducts)
    /\ \E i \in DOMAIN aProducts :
          TypesOf(aOut[1].out, aProducts[i].artikelBasis)
             = {"opportunity", "optimize", "ads_reduce"}

\* ------------------------------------------------------------ properties of the column lookup

AsciiKeyChars == Range(SubSeq(LowerChars, 1, 26)) \cup Range(DigitChars) \cup {"_"}

\* the lower-cased key without the characters outside kept
StrippedTo(key, kept) ==
    LET lowered == trim(toLowerCase(key))
    IN  SelectSeq(lowered, LAMBDA c : c \in kept)

\* out is the value of the first key of the row whose form stripped to kept
\* contains one of the patterns, and undefined when there is no such key
FirstMatchingKey(row, patterns, kept, out) ==
    LET matching == {i \in DOMAIN row :
                        \E j \in DOMAIN patterns : includes(StrippedTo(row[i].k, kept), patterns[j])}
    IN  IF matching = {} THEN out = Undefined
        ELSE out = row[CHOOSE i \in matching : \A k \in matching : i <= k].v

\* C22 as stated: the value of the first key, in iteration order, whose
\* lower-cased form stripped to [a-z0-9_] contains a pattern; undefined when
\* no key matches.
FirstMatchingAsciiKey ==
    (sOut # None /\ sOut[1].fn = "findColumn") =>
        FirstMatchingKey(sIn, sOut[1].patterns, AsciiKeyChars, sOut[1].out)

\* C22: findColumn returns the value of the first key, in the row's key
\* iteration order, whose normalized form (lower-cased, trimmed and stripped to
\* the letters a-z, the digits, the umlauts, sharp s and _) contains any of the
\* patterns: all patterns are tried on a key before the next key, so an earlier
\* key matching a low-priority pattern wins; undefined when no key matches.
FirstMatchingNormalizedKey ==
    (sOut # None /\ sOut[1].fn = "findColumn") =>
        FirstMatchingKey(sIn, sOut[1].patterns, KeyChars, sOut[1].out)

\* the lookup of stock in a row with Bestand before Auf Lager: the earlier key
\* matches the fourth pattern, the later key the first, the earlier wins
EarlierKeyWins ==
    /\ sOut # None /\ sOut[1].fn = "findColumn" /\ sOut[1].patterns = PatStock
    /\ Len(sIn) >= 2 /\ sIn[1].k = <<"B", "e", "s", "t", "a", "n", "d">> /\ sIn[2].k = <<"A", "u", "f", " ", "L", "a", "g", "e", "r">>
    /\ sOut[1].out = sIn[1].v

\* ------------------------------------------------------------ properties of the shop analytics

\* the channel label of a row: its trimmed label, the fallback when that is empty
LabelOf(r) == IF trim(r.salesChannel) = <<>> THEN <<"e", "B", "a", "y">> ELSE trim(r.salesChannel)

RECURSIVE SumOfShares(_)
SumOfShares(analytics) ==
    IF analytics = <<>> THEN [n |-> 0, d |-> 1]
    ELSE LET rest == SumOfShares(Tail(analytics))
             share == Head(analytics).percentageOfTotal
         IN  Lowest([n |-> rest.n * share.d + share.n * rest.d, d |-> rest.d * share.d])

\* the analytics are one entry per label of the rows, with the sums of all rows
\* of the label, the number of its base ids and its share of the revenue
OneEntryPerLabel(analytics, resolution) ==
    LET labels == {LabelOf(resolution[i]) : i \in DOMAIN resolution}
        total == SumBy(resolution, LAMBDA r : r.revenue)
    IN  /\ Len(analytics) = Cardinality(labels)
        /\ {analytics[i].shopName : i \in DOMAIN analytics} = labels
        /\ \A i \in DOMAIN analytics :
              LET e == analytics[i]
                  mine == SelectSeq(resolution, LAMBDA r : LabelOf(r) = e.shopName)
              IN  /\ e.totalRevenue = SumBy(mine, LAMBDA r : r.revenue)
                  /\ e.totalUnitsSold = SumBy(mine, LAMBDA r : r.unitsSold)
                  /\ e.productCount
                        = Cardinality({mine[j].artikelBasis : j \in DOMAIN mine} \ {<<>>})
                  /\ IF total > 0
                     THEN e.percentageOfTotal.n * total
                             = 100 * e.totalRevenue * e.percentageOfTotal.d
                     ELSE e.percentageOfTotal.n = 0
        /\ total > 0 => SumOfShares(analytics) = [n |-> 100, d |-> 1]

\* C23: generateShopAnalytics returns one entry per distinct channel label
\* of the date-filtered rows (an empty or missing label is the fallback channel),
\* with totalRevenue and totalUnitsSold summed over all rows of the channel,
\* productCount the number of distinct base ids of the channel, and
\* percentageOfTotal 100 * channel revenue / total revenue, 0 for every channel
\* when the total is not positive; the shares sum to 100 when it is positive.
ShopAnalyticsContract ==
    (pOut # None /\ pRows # <<>>) =>
        OneEntryPerLabel(pOut[1].shopAnalytics, ResolutionOfRows)

\* a parse with two channels, where the fallback channel takes a row without a
\* label and has more rows than base ids
ShopWithFallbackRows ==
    /\ pOut # None
    /\ Len(pOut[1].shopAnalytics) = 2
    /\ \E i \in DOMAIN pRows : findColumn(pRows[i], PatShop) = Str(<<>>)
    /\ \E i \in DOMAIN pOut[1].shopAnalytics :
          LET e == pOut[1].shopAnalytics[i]
          IN  /\ e.shopName = <<"e", "B", "a", "y">> /\ e.productCount = 1 /\ e.totalRevenue = 100
              /\ e.percentageOfTotal = [n |-> 10000, d |-> 120]

\* ------------------------------------------------------------ properties of the date filter

\* the rule of the filter as documented: a row without a date or with a date
\* that does not parse is kept, any other row is kept when its date is from
\* the start to the end of the interval, both included
KeptAsDocumented(row, range, clock) ==
    LET dateStr == String(Or(Or(Or(Get(row, <<"A", "u", "f", "t", "r", "a", "g", "s", "d", "a", "t", "u", "m">>), Get(row, <<"D", "a", "t", "e">>)),
                                Get(row, <<"D", "a", "t", "u", "m">>)), Str(<<>>)))
        date == parseISO(dateStr)
        to == IF range[1].to # None THEN range[1].to[1] ELSE clock
    IN  \/ dateStr = <<>>
        \/ date = None
        \/ date[1] >= range[1].from[1] /\ date[1] <= to

RowsKeptAsDocumented ==
    IF HasFrom(pRange) THEN SelectSeq(pRows, LAMBDA row : KeptAsDocumented(row, pRange, pNow))
    ELSE pRows

BuiltFromRows(parsed, kept, clock) ==
    /\ parsed.products = Products(Aggregate(RawProducts(kept), <<>>))
    /\ parsed.shopAnalytics = generateShopAnalytics(kept, None, clock)

\* C24: with a date interval (to defaulting to now) a row is kept if and
\* only if its date lies within the inclusive bounds, and a row whose date is
\* missing or does not parse is always kept; the products and the shop
\* analytics are both built from the rows so kept.
KeepsUndatedAndUnparsableRows ==
    (pOut # None /\ pRows # <<>>) => BuiltFromRows(pOut[1], RowsKeptAsDocumented, pNow)

\* ------------------------------------------------------------ properties of the caches

\* C25: a cache write of a parse result X followed by a cache read returns
\* an envelope whose payload is equal to X in every field, lastUpdated being a
\* date again and not a string, and whose timestamp is the time of the write.
CacheRoundTrip ==
    (lsOut # None /\ lsOut[1].op = "read" /\ lsOut[1].before # None
       /\ lsOut[1].before[1].op = "write") =>
        /\ lsOut[1].result # None
        /\ lsOut[1].result[1].data = lsData[1]
        /\ lsOut[1].result[1].timestamp = lsOut[1].before[1].clock

\* C26: a cache read returns null when the entry is missing, is not
\* parseable or lacks the shape of the envelope, a data and a timestamp.
AbsentUnlessEnvelope ==
    (lsOut # None /\ lsOut[1].op = "read"
       /\ (lsEntry = None \/ {"data", "timestamp"} \ DOMAIN lsEntry[1] # {})) =>
        lsOut[1].result = None

\* ------------------------------------------------------------ properties of the fetch orchestration

\* C27: the cache envelope, payload and timestamp, is replaced only as the
\* result of a successful fetch: a fresh cache hit, a failed fetch that falls
\* back to the cache and a change of the date range all leave it unchanged.
ReplacedOnlyBySuccessfulFetch == [][cache' # cache => last'.kind = "success"]_vars

\* every call in flight awaits its first or its second request, a settled
\* call has made at most one fallback request, and the step that ends a call
\* leaves loading false
EndsWithinTwoRequests ==
    /\ \A f \in BagToSet(fetches) : f.pc \in {"primary", "fallback"}
    /\ last.fallbacks <= 1
    /\ last.kind \in {"hit", "success", "failed"} => loading = FALSE

\* C28 as stated: every fetchData call ends after at most two requests and
\* sets loading to false on every exit path; in any state where no call is in
\* flight, loading is false.
LoadingFalseWhenIdle ==
    /\ EndsWithinTwoRequests
    /\ InFlight(fetches) = 0 => loading = FALSE

\* C28: every fetchData call ends after at most two requests (the primary
\* and a single fallback) and sets loading to false on every exit path: cache
\* hit, success, fallback success, failure; in any state after the mount effect
\* has called fetchData where no call is in flight, loading is false.
LoadingFalseWhenIdleAfterMount ==
    /\ EndsWithinTwoRequests
    /\ (mounted /\ InFlight(fetches) = 0) => loading = FALSE

\* a call has failed after its fallback request, no call is in flight
FailedAfterFallback ==
    /\ mounted /\ InFlight(fetches) = 0
    /\ last.kind = "failed" /\ last.fallbacks = 1
    /\ loading = FALSE
\* ------------------------------------------------------------ properties of the hook

\* C3: whenever fetchData serves from the cache (a fresh entry on a call that
\* is not forced, or the entry, stale or not, after a failed fetch), the
\* product list handed to the consumers is the product list of the parse
\* result stored in the entry; after a failed fetch the error is set as well.
ServesCachedProducts ==
    (last.kind = "hit" \/ (last.kind = "failed" /\ last.cached # None)) =>
        /\ data # None
        /\ data[1].products = last.cached[1].data.products
        /\ last.kind = "failed" => error = Some(FetchError)

\* C4: once a fetch has succeeded with a non-empty product list, the product
\* list the mounted hook hands out when it is not loading is non-empty, through
\* remounts, cache hits, forced refreshes and failed fetches.
NeverEmptyAfterSuccess ==
    (last.seenNonEmpty /\ mounted /\ ~loading) =>
        data # None /\ data[1].products # <<>>

\* C5 as stated: every failure of the primary request (rejected, not OK,
\* success false, no rows list) leads to exactly one request to the fallback
\* endpoint before the fetch can fail; the fetch succeeds if the fallback
\* response is valid and fails only if the fallback fails too.
FallbackOnEveryFailure ==
    last.kind \in {"failed", "success"} =>
        /\ last.primary # "valid" => last.fallbacks = 1
        /\ last.kind = "failed" => last.fallbacks = 1 /\ last.secondary = "invalid"
        /\ (last.fallbacks = 1 /\ last.secondary = "valid") => last.kind = "success"

\* C5: the fallback endpoint is requested, once, exactly when the primary
\* response is OK and carries success false; a rejected or not-OK primary
\* request, and a primary response without a rows list, fail the fetch with no
\* fallback request; after a fallback request the fetch succeeds if the
\* fallback response is valid and fails otherwise.
FallbackOnlyOnSuccessFalse ==
    /\ last.kind = "fallbackRequest" => last.primary = "successFalse"
    /\ last.kind \in {"failed", "success"} =>
          /\ last.fallbacks = (IF last.primary = "successFalse" THEN 1 ELSE 0)
          /\ last.fallbacks = 1 => (last.kind = "success" <=> last.secondary = "valid")
          /\ last.fallbacks = 0 => (last.kind = "success" <=> last.primary = "valid")
    /\ \A f \in BagToSet(fetches) : f.pc = "fallback" => f.primary = "successFalse"

\* a fetch whose primary request was rejected has failed with no fallback request
FailedWithoutFallback ==
    /\ last.kind = "failed" /\ last.primary = "rejected" /\ last.fallbacks = 0
    /\ error = Some(FetchError) /\ ~loading

\* C6: fetchData starts a request if and only if it is forced or the cache
\* entry is absent or at least 5 minutes old; a call that is not forced and
\* finds a fresh entry starts no request and sets loading to false; a forced
\* call starts a request whatever the age of the entry.
RequestPolicy ==
    last.kind \in {"hit", "request"} =>
        /\ last.requested <=>
              \/ last.forced
              \/ last.cached = None
              \/ last.clock - last.cached[1].timestamp >= 5 * 60 * 1000
        /\ last.requested => InFlight(fetches) >= 1 /\ loading
        /\ ~last.requested => ~loading

\* a call that was not forced found an entry of 5 minutes and started a request
StaleEntryRefetched ==
    /\ last.kind = "request" /\ ~last.forced /\ last.requested
    /\ last.cached # None
    /\ last.clock - last.cached[1].timestamp = 5 * 60 * 1000

\* C7: when two refresh() calls overlap, then once all fetches have settled
\* the state handed to the consumers is the one the last settled fetch wrote:
\* loading is false, and if that fetch succeeded the rows are its rows and no
\* error of an earlier fetch remains.
LastFetchWins ==
    (last.kind \in {"success", "failed"} /\ last.overlapped /\ InFlight(fetches) = 0) =>
        /\ ~loading
        /\ last.kind = "success" => rawData = last.rows /\ error = None
        /\ last.kind = "failed" => error = Some(FetchError)

====
